---- MODULE Spec2Model ----
(***************************************************************************)
(* Model of the conversation context and memory engine of                  *)
(* discord-claude-bot (src/bot_discord.py) and of its scheduler.           *)
(*                                                                         *)
(* The specifications of the module:                                       *)
(*   SpecChunk  chunk_message, one loop iteration per step, over bounded   *)
(*              input texts;                                               *)
(*   SpecSeq    the per-user conversation state, the compression pipeline  *)
(*              and the message handlers, one message at a time;           *)
(*   SpecRace   one user's handlers interleaved at their awaits, with the  *)
(*              executor's threads running beside the event loop;          *)
(*   SpecMerge  merge_memory_facts applied to bounded inputs;              *)
(*   SpecMem    the fact store and its commands after a start from         *)
(*              snapshots;                                                 *)
(*   SpecStore  one user's commands beside stored data of another, with    *)
(*              snapshot writes that may fail;                             *)
(*   SpecPair   two users' handlers at once;                               *)
(*   SpecLoad   load_history and load_memory, one record per step;         *)
(*   SpecCtx    build_context, one iteration of its loop per step;         *)
(*   SpecCron   the scheduler (src/cron_scheduler.py), its commands        *)
(*              (src/cron_commands.py) and the execution of its jobs;      *)
(*   SpecInput  the commands that take an argument, on arguments of every  *)
(*              form;                                                      *)
(*   SpecInvoke a scheduled job that invokes Claude, beside one user's     *)
(*              messages;                                                  *)
(*   SpecAuth   on_message with its authorization check, for settings of   *)
(*              ALLOWED_USER_IDS of every form;                            *)
(*   Spec       all users' handlers interleaved at their awaits.           *)
(*                                                                         *)
(* Text is a sequence of one-character strings; "\n" is the newline.       *)
(***************************************************************************)
EXTENDS Integers, Sequences, FiniteSets, TLC

VARIABLES
    text,            \* chunk_message (lines 73-131): argument text
    max_chars,       \* argument max_chars
    ck_pc,           \* "off" | "start" | "loop" | "done"
    lines,           \* text.split("\n")
    ck_i,            \* index in lines of the line the for loop takes next
    chunks,          \* the result list
    current_chunk,
    inside_fence,
    fence_marker,
    fence_lang,
    g_open_line,     \* ghost: the source line that opened the current fence
    g_cur_reopen,    \* ghost: current_chunk starts with an inserted re-open line
    g_marks,         \* ghost: per emitted chunk, which fence lines were inserted
    conversation_states,  \* dict user id -> ConversationState
    user_memories,        \* dict user id -> list of facts
    history_file,         \* content of HISTORY_FILE
    memory_file,          \* content of MEMORY_FILE
    pc,                   \* per handler: where its coroutine or thread stands
    loc,                  \* per handler: its local variables
    next_turn,            \* number of chat messages received so far
    write_failures,       \* number of snapshot writes that failed so far
    g_failed,             \* ghost: per user, the block of the last failed cycle
    g_backlog,            \* ghost: per user, a cycle failed since the
                          \* conversation was last emptied
    jobs,                 \* CronScheduler._jobs: dict job id -> CronJob
    jobs_file,            \* content of JOBS_FILE
    schedules,            \* the schedules held by the AsyncScheduler:
                          \* job id -> kind of trigger
    runs,                 \* per task slot: a call of _execute_job
    sent,                 \* the last response a command handler sent
    next_job,             \* number of job ids generated so far
    ALLOWED_USER_IDS      \* the environment's list of user ids (line 36)

ckvars == <<text, max_chars, ck_pc, lines, ck_i, chunks, current_chunk,
            inside_fence, fence_marker, fence_lang, g_open_line, g_cur_reopen,
            g_marks>>

cvvars == <<conversation_states, user_memories, history_file, memory_file,
            pc, loc, next_turn, write_failures, g_failed, g_backlog>>

crvars == <<jobs, jobs_file, schedules, runs, sent, next_job,
            ALLOWED_USER_IDS>>

vars == <<ckvars, cvvars, crvars>>

-----------------------------------------------------------------------------
(* String helpers: Python str operations on sequences of characters.       *)

NL == "\n"
SP == " "

\* s.startswith(p)
StartsWith(s, p) ==
    /\ Len(p) <= Len(s)
    /\ \A k \in 1..Len(p) : s[k] = p[k]

\* s[i:] for a 0-based i (Python slice)
SliceFrom(s, i) == IF i >= Len(s) THEN <<>> ELSE SubSeq(s, i + 1, Len(s))

\* number of leading characters of s equal to c
RECURSIVE LeadRun(_, _)
LeadRun(s, c) ==
    IF s # <<>> /\ Head(s) = c THEN 1 + LeadRun(Tail(s), c) ELSE 0

\* number of trailing characters of s equal to c
RECURSIVE TrailRun(_, _)
TrailRun(s, c) ==
    IF s # <<>> /\ s[Len(s)] = c
    THEN 1 + TrailRun(SubSeq(s, 1, Len(s) - 1), c)
    ELSE 0

\* s.rstrip("\n")
RStripNL(s) == SubSeq(s, 1, Len(s) - TrailRun(s, NL))

\* s.strip(): the only whitespace inside a line of the model is the space
Strip(s) ==
    LET a == LeadRun(s, SP)
        b == TrailRun(s, SP)
    IN  IF a = Len(s) THEN <<>> ELSE SubSeq(s, a + 1, Len(s) - b)

\* c * n
Repeat(c, n) == [k \in 1..n |-> c]

\* s.split("\n")
RECURSIVE Split(_)
Split(s) ==
    LET n == Len(s)
        P == {k \in 1..n : s[k] = NL}
    IN  IF P = {} THEN <<s>>
        ELSE LET p == CHOOSE k \in P : \A j \in P : k <= j
             IN  <<SubSeq(s, 1, p - 1)>> \o Split(SubSeq(s, p + 1, n))

\* "\n".join(ls)
RECURSIVE Join(_)
Join(ls) ==
    IF ls = <<>> THEN <<>>
    ELSE IF Len(ls) = 1 THEN ls[1]
    ELSE ls[1] \o <<NL>> \o Join(Tail(ls))

-----------------------------------------------------------------------------
\* FENCE_PATTERN, matched at the start of a line: up to three spaces
\* (group 1), then a run of at least three backticks or of at least three
\* tildes (group 2, greedy), then the rest of the line (group 3).

\* BT stands for the backtick, which a TLA+ string cannot hold.
BT == "'"
TL == "~"

FenceIndent(line) == LeadRun(line, SP)

FenceBody(line) == SliceFrom(line, FenceIndent(line))

FENCE_PATTERN(line) ==
    /\ FenceIndent(line) <= 3
    /\ \/ LeadRun(FenceBody(line), BT) >= 3
       \/ LeadRun(FenceBody(line), TL) >= 3

\* fence_match.group(2)
FenceGroup2(line) ==
    LET b == FenceBody(line)
    IN  SubSeq(b, 1, LeadRun(b, b[1]))

\* fence_match.group(3)
FenceGroup3(line) ==
    LET b == FenceBody(line)
    IN  SliceFrom(b, LeadRun(b, b[1]))

-----------------------------------------------------------------------------
(* chunk_message (src/bot_discord.py:73-131), one loop iteration per step. *)

\* Bounds of the input texts.
MaxLines == 4
MinChars == 6
MaxChars == 8

Str2(a, b) == <<a, b>>

\* The source lines the input texts are made of: blank, short, longer than
\* every max_chars, and fence lines with and without a language tag, with
\* both marker characters, and with indentation and padded tag.
LineSet ==
    { <<>>,
      Str2("a", "b"),
      <<"a", "b", "c", "d", "e", "f", "g", "h", "i", "j">>,
      <<BT, BT, BT>>,
      <<BT, BT, BT, "p", "y">>,
      <<TL, TL, TL>>,
      <<SP, BT, BT, BT, BT, SP, "q", SP>> }

Texts == { Join(ls) : ls \in UNION { [1..n -> LineSet] : n \in 1..MaxLines } }

\* fence_marker * 3
Marker3(m) == m \o m \o m

\* fence_marker * 3 + "\n"  (lines 109, 115)
CloseLine(m) == Marker3(m) \o <<NL>>

\* Mutant of ReopenLine: the language tag is not carried over.
ReopenLine_NoLang(m, lang) == Marker3(m) \o <<NL>>

\* fence_marker * 3 + fence_lang + "\n"  (line 122)
ReopenLine(m, lang) == Marker3(m) \o lang \o <<NL>>

\* Lines 92-102: the fence state after looking at `line`.
FenceTrack(inside, marker, lang, line) ==
    IF FENCE_PATTERN(line)
    THEN IF ~inside
         THEN [inside |-> TRUE,
               marker |-> <<FenceGroup2(line)[1]>>,
               lang   |-> Strip(FenceGroup3(line))]
         ELSE IF StartsWith(Strip(line), Marker3(marker))
              THEN [inside |-> FALSE, marker |-> <<>>, lang |-> <<>>]
              ELSE [inside |-> inside, marker |-> marker, lang |-> lang]
    ELSE [inside |-> inside, marker |-> marker, lang |-> lang]

\* Line 109: the room kept for the closing marker.
Reserve(inside, marker) == IF inside THEN Len(CloseLine(marker)) ELSE 0

\* Line 111: does appending `line` need a new chunk?
NeedSplit(cur, line, inside, marker) ==
    Len(cur) + Len(line \o <<NL>>) + Reserve(inside, marker) > max_chars

\* Lines 113-117: the chunk that is emitted at a split.
Emitted(cur, inside, marker) ==
    RStripNL(IF inside THEN cur \o CloseLine(marker) ELSE cur)

\* Mutant of Started: outside a fence the new chunk starts empty.
Started_LosesLine(line, inside, marker, lang) ==
    IF inside THEN ReopenLine(marker, lang) \o line \o <<NL>>
    ELSE <<>>

\* Lines 120-124: the chunk that is started at a split.
Started(line, inside, marker, lang) ==
    IF inside THEN ReopenLine(marker, lang) \o line \o <<NL>>
    ELSE line \o <<NL>>

ChunkStart ==
    /\ text \in Texts
    /\ max_chars \in MinChars..MaxChars
    /\ ck_pc = "start"
    /\ lines = <<>>
    /\ ck_i = 0
    /\ chunks = <<>>
    /\ current_chunk = <<>>
    /\ inside_fence = FALSE
    /\ fence_marker = <<>>
    /\ fence_lang = <<>>
    /\ g_open_line = <<>>
    /\ g_cur_reopen = FALSE
    /\ g_marks = <<>>

ChunkOff ==
    /\ text = <<>>
    /\ max_chars = 0
    /\ ck_pc = "off"
    /\ lines = <<>>
    /\ ck_i = 0
    /\ chunks = <<>>
    /\ current_chunk = <<>>
    /\ inside_fence = FALSE
    /\ fence_marker = <<>>
    /\ fence_lang = <<>>
    /\ g_open_line = <<>>
    /\ g_cur_reopen = FALSE
    /\ g_marks = <<>>

\* Mutant of ChunkShort: the text loses its trailing newlines.
ChunkShort_Strips ==
    /\ ck_pc = "start"
    /\ Len(text) <= max_chars
    /\ chunks' = <<RStripNL(text)>>
    /\ g_marks' = <<[reopen |-> FALSE, close |-> FALSE, open_line |-> <<>>]>>
    /\ ck_pc' = "done"
    /\ UNCHANGED <<text, max_chars, lines, ck_i, current_chunk, inside_fence,
                   fence_marker, fence_lang, g_open_line, g_cur_reopen>>
    /\ UNCHANGED <<cvvars, crvars>>

\* Lines 79-80: a text that fits is returned whole.
ChunkShort ==
    /\ ck_pc = "start"
    /\ Len(text) <= max_chars
    /\ chunks' = <<text>>
    /\ g_marks' = <<[reopen |-> FALSE, close |-> FALSE, open_line |-> <<>>]>>
    /\ ck_pc' = "done"
    /\ UNCHANGED <<text, max_chars, lines, ck_i, current_chunk, inside_fence,
                   fence_marker, fence_lang, g_open_line, g_cur_reopen>>
    /\ UNCHANGED <<cvvars, crvars>>

\* Lines 82-88: the loop is set up.
ChunkBegin ==
    /\ ck_pc = "start"
    /\ Len(text) > max_chars
    /\ lines' = Split(text)
    /\ ck_i' = 1
    /\ ck_pc' = "loop"
    /\ UNCHANGED <<text, max_chars, chunks, current_chunk, inside_fence,
                   fence_marker, fence_lang, g_open_line, g_cur_reopen, g_marks>>
    /\ UNCHANGED <<cvvars, crvars>>

\* Lines 90-126: one iteration of the for loop.
ChunkLine ==
    /\ ck_pc = "loop"
    /\ ck_i <= Len(lines)
    /\ LET line == lines[ck_i]
           f    == FenceTrack(inside_fence, fence_marker, fence_lang, line)
       IN  /\ inside_fence' = f.inside
           /\ fence_marker' = f.marker
           /\ fence_lang' = f.lang
           /\ g_open_line' = IF f.inside
                             THEN (IF inside_fence THEN g_open_line ELSE line)
                             ELSE <<>>
           /\ IF NeedSplit(current_chunk, line, f.inside, f.marker)
              THEN /\ chunks' = Append(chunks,
                                       Emitted(current_chunk, f.inside, f.marker))
                   /\ current_chunk' = Started(line, f.inside, f.marker, f.lang)
                   /\ g_marks' = Append(g_marks,
                                        [reopen    |-> g_cur_reopen,
                                         close     |-> f.inside,
                                         open_line |-> g_open_line'])
                   /\ g_cur_reopen' = f.inside
              ELSE /\ current_chunk' = current_chunk \o line \o <<NL>>
                   /\ UNCHANGED <<chunks, g_marks, g_cur_reopen>>
    /\ ck_i' = ck_i + 1
    /\ UNCHANGED <<text, max_chars, ck_pc, lines>>
    /\ UNCHANGED <<cvvars, crvars>>

\* Lines 128-131: the last chunk is emitted and the list returned.
ChunkFinish ==
    /\ ck_pc = "loop"
    /\ ck_i > Len(lines)
    /\ IF current_chunk # <<>>
       THEN /\ chunks' = Append(chunks, RStripNL(current_chunk))
            /\ g_marks' = Append(g_marks,
                                 [reopen    |-> g_cur_reopen,
                                  close     |-> FALSE,
                                  open_line |-> <<>>])
       ELSE UNCHANGED <<chunks, g_marks>>
    /\ ck_pc' = "done"
    /\ UNCHANGED <<text, max_chars, lines, ck_i, current_chunk, inside_fence,
                   fence_marker, fence_lang, g_open_line, g_cur_reopen>>
    /\ UNCHANGED <<cvvars, crvars>>

ChunkNext == ChunkShort \/ ChunkBegin \/ ChunkLine \/ ChunkFinish

-----------------------------------------------------------------------------
(* Properties of chunk_message, checked under SpecChunk.                   *)

FirstLine(s) == Split(s)[1]

LastLine(s) == Split(s)[Len(Split(s))]

\* The fence state at the end of a text of its own, tracked as the chunker
\* tracks it: TRUE when a fence is left open.
RECURSIVE OpenAtEnd(_, _, _, _)
OpenAtEnd(ls, inside, marker, lang) ==
    IF ls = <<>> THEN inside
    ELSE LET f == FenceTrack(inside, marker, lang, Head(ls))
         IN  OpenAtEnd(Tail(ls), f.inside, f.marker, f.lang)

Balanced(s) == ~OpenAtEnd(Split(s), FALSE, <<>>, <<>>)

\* The source lines a fragment carries: its lines without the fence lines
\* the chunker inserted; an empty fragment carries none.
SourceLinesOf(i) ==
    LET ls == IF chunks[i] = <<>> THEN <<>> ELSE Split(chunks[i])
        a  == IF g_marks[i].reopen THEN 2 ELSE 1
        b  == IF g_marks[i].close THEN Len(ls) - 1 ELSE Len(ls)
    IN  SubSeq(ls, a, b)

RECURSIVE Rejoined(_)
Rejoined(n) == IF n = 0 THEN <<>> ELSE Rejoined(n - 1) \o SourceLinesOf(n)

\* C1: every fragment chunk_message returns is at most max_chars long,
\* except a fragment that is one source line which alone exceeds max_chars.
C1_FragmentWithinMax ==
    ck_pc = "done" =>
        \A i \in 1..Len(chunks) :
            \/ Len(chunks[i]) <= max_chars
            \/ \E k \in 1..Len(lines) :
                  lines[k] = chunks[i] /\ Len(lines[k]) > max_chars

\* C2: every fragment of a text whose fences are balanced has balanced
\* fences of its own, wherever the split falls.
C2_FragmentBalanced ==
    (ck_pc = "done" /\ Balanced(text)) =>
        \A i \in 1..Len(chunks) : Balanced(chunks[i])

C4_Reconstructs ==
    (ck_pc = "done" /\ Len(text) > max_chars) =>
        Rejoined(Len(chunks)) = lines

IsPrefix(a, b) == Len(a) <= Len(b) /\ SubSeq(b, 1, Len(a)) = a

\* number of leading blank lines of ls
RECURSIVE LeadBlank(_)
LeadBlank(ls) ==
    IF ls # <<>> /\ Head(ls) = <<>> THEN 1 + LeadBlank(Tail(ls)) ELSE 0

\* rest is made of the source lines of the fragments i, i+1, ... in order,
\* each followed by blank lines that no fragment carries.
RECURSIVE FitsFrom(_, _)
FitsFrom(i, rest) ==
    IF i > Len(chunks) THEN rest = <<>>
    ELSE LET src   == SourceLinesOf(i)
             after == SubSeq(rest, Len(src) + 1, Len(rest))
         IN  /\ IsPrefix(src, rest)
             /\ \E k \in 0..LeadBlank(after) :
                    FitsFrom(i + 1, SubSeq(after, k + 1, Len(after)))

\* C4, amended: the fragments of a split text, taken in order without the
\* inserted fence lines, are the source lines of the text except blank
\* lines that ended a fragment, which the trailing-newline trim drops; no
\* other line is dropped and none is duplicated or reordered.
C4_ReconstructsButTrimmed ==
    (ck_pc = "done" /\ Len(text) > max_chars) => FitsFrom(1, lines)

\* C4 witness: a split text that lost a blank line between two fragments.
C4_Witness ==
    /\ ck_pc = "done"
    /\ Len(chunks) >= 2
    /\ Len(Rejoined(Len(chunks))) < Len(lines)
    /\ lines[Len(lines)] # <<>>

\* C28: a text of at most max_chars characters is returned as the list of
\* that one text, unchanged, whatever fences it holds.
C28_ShortTextWhole ==
    (ck_pc = "done" /\ Len(text) <= max_chars) => chunks = <<text>>

\* C28 witness: a text that fits, opens a fence it never closes and ends
\* with a newline was returned.
C28_Witness ==
    /\ ck_pc = "done"
    /\ Len(text) <= max_chars
    /\ ~Balanced(text)
    /\ text[Len(text)] = NL
    /\ Len(chunks) = 1

-----------------------------------------------------------------------------
(* Conversation state, fact store and snapshots (src/bot_discord.py).      *)

\* User identities and the handlers (on_message tasks) that can be in
\* flight at once.
Users == {101, 102}
Handlers == {1, 2}

\* Number of chat messages the model lets arrive, and of snapshot writes it
\* lets fail.
MaxTurns == 3
MaxWriteFailures == 1

\* Program constants, scaled down: the source sets the threshold to 16
\* (environment, line 39), the block to 10, the summary ceiling to 2000 and
\* the fact cap to 20.  The model keeps block < threshold, both even.
MAX_MESSAGES_BEFORE_COMPRESS == 4
MESSAGES_TO_SUMMARIZE == 2
MAX_SUMMARY_CHARS == 9
MAX_MEMORY_FACTS == 2
\* ask_claude's default max_retries (line 505)
max_retries == 3
\* /new extracts facts only from at least this many messages (line 719)
NEW_MIN_MESSAGES == 4

\* The delimiter between merged summaries: "\n\n---\n\n" (lines 442, 831)
DELIM == <<NL, NL, "-", "-", "-", NL, NL>>

EmptyDict == [x \in {} |-> 0]

Put(d, k, v) == [x \in (DOMAIN d) \cup {k} |-> IF x = k THEN v ELSE d[x]]

\* ConversationState() (lines 151-154)
ConversationState == [summary |-> <<>>, messages |-> <<>>]

\* Message(role, content, timestamp) (lines 144-148); content is the number
\* of the chat message the turn belongs to, the timestamp is left out.
Message(role, content) == [role |-> role, content |-> content]

\* get_conversation_state (lines 169-173): the dict after the call.
get_conversation_state(cs, u) ==
    IF u \in DOMAIN cs THEN cs ELSE Put(cs, u, ConversationState)

\* get_user_memory (lines 164-166)
get_user_memory(um, u) == IF u \in DOMAIN um THEN um[u] ELSE <<>>

\* messages[:n] and messages[n:]
Take(q, n) == SubSeq(q, 1, IF n < Len(q) THEN n ELSE Len(q))
Drop(q, n) == SubSeq(q, n + 1, Len(q))

\* Mutant of CapFacts: the oldest facts are kept and the newest dropped.
CapFacts_Oldest(existing) ==
    IF Len(existing) > MAX_MEMORY_FACTS
    THEN SubSeq(existing, 1, MAX_MEMORY_FACTS)
    ELSE existing

\* existing[-MAX_MEMORY_FACTS:] when the list is too long (lines 251-252)
CapFacts(existing) ==
    IF Len(existing) > MAX_MEMORY_FACTS
    THEN SubSeq(existing, Len(existing) - MAX_MEMORY_FACTS + 1, Len(existing))
    ELSE existing

\* Mutant of MergeLoop: the candidate is compared before it is trimmed.
RECURSIVE MergeLoop_NoStrip(_, _)
MergeLoop_NoStrip(existing, new_facts) ==
    IF new_facts = <<>> THEN existing
    ELSE LET fact == Head(new_facts)
         IN  IF Strip(fact) = <<>>
                   \/ (\E k \in 1..Len(existing) : existing[k] = fact)
             THEN MergeLoop_NoStrip(existing, Tail(new_facts))
             ELSE MergeLoop_NoStrip(Append(existing, Strip(fact)),
                                    Tail(new_facts))

\* The loop of merge_memory_facts (lines 242-248)
RECURSIVE MergeLoop(_, _)
MergeLoop(existing, new_facts) ==
    IF new_facts = <<>> THEN existing
    ELSE LET fact == Strip(Head(new_facts))
         IN  IF fact = <<>> \/ (\E k \in 1..Len(existing) : existing[k] = fact)
             THEN MergeLoop(existing, Tail(new_facts))
             ELSE MergeLoop(Append(existing, fact), Tail(new_facts))

\* Mutant of merge_memory_facts: the list is not cut to the cap.
merge_memory_facts_NoCap(um, u, new_facts) ==
    Put(um, u, MergeLoop(get_user_memory(um, u), new_facts))

\* merge_memory_facts (lines 238-254): the dict after the call.
merge_memory_facts(um, u, new_facts) ==
    Put(um, u, CapFacts(MergeLoop(get_user_memory(um, u), new_facts)))

\* str(uid), the key of a user in the snapshot files
Str(u) == <<"str", u>>

\* The data save_history writes (lines 291-304)
HistoryData(cs) ==
    [k \in {Str(u) : u \in DOMAIN cs} |->
        LET u == k[2]
        IN  [summary  |-> cs[u].summary,
             messages |-> [i \in 1..Len(cs[u].messages) |->
                              [role    |-> cs[u].messages[i].role,
                               content |-> cs[u].messages[i].content]]]]

\* The data save_memory writes (lines 259-266): users with facts only;
\* updated_at is left out.
MemoryData(um) ==
    [k \in {Str(u) : u \in {x \in DOMAIN um : um[x] # <<>>}} |->
        [facts |-> um[k[2]]]]

\* Outcomes of a snapshot write: TRUE when write_text succeeds, FALSE when
\* it raises and the handler (lines 307, 269) swallows the exception.
WriteOutcomes == IF write_failures < MaxWriteFailures THEN {TRUE, FALSE} ELSE {TRUE}

\* save_history (lines 289-308) and save_memory (lines 257-270): the file
\* after the call.
save_history(cs, ok) == IF ok THEN HistoryData(cs) ELSE history_file
save_memory(um, ok) == IF ok THEN MemoryData(um) ELSE memory_file

Failed(ok) == IF ok THEN 0 ELSE 1

\* What generate_summary (lines 396-423) can return: ("", []) on a non-zero
\* exit status, a timeout, an exception or empty output; otherwise what
\* parse_summary_and_facts makes of the output: a summary with or without
\* facts, or facts under an empty summary section.
FactA == <<"A">>
FactB == <<"B">>
GenFailure == [summary |-> <<>>, facts |-> <<>>]
GenResults ==
    { GenFailure,
      [summary |-> <<"s">>, facts |-> <<>>],
      [summary |-> <<"s", "s">>, facts |-> <<FactA>>],
      [summary |-> <<>>, facts |-> <<FactB>>] }

\* What the compaction call can print: nothing usable (<<>>: non-zero exit
\* status, exception or empty output) or a compacted text.
CompactOutputs == { <<>>, <<"c">> }

\* Mutant of compress_summary: a failed compaction returns nothing.
compress_summary_Loses(summary, out) == out

\* compress_summary (lines 371-393): the value returned for what the call
\* printed.
compress_summary(summary, out) == IF out = <<>> THEN summary ELSE out

\* f"{old_summary}\n\n---\n\n{new_summary}" (lines 442, 831)
Combined(old_summary, new_summary) == old_summary \o DELIM \o new_summary

NoLocals ==
    [user |-> 0, turn |-> 0, attempt |-> 0, last_error |-> "", state |-> "none",
     to_summarize |-> <<>>, to_keep |-> <<>>, old_summary |-> <<>>,
     new_summary |-> <<>>, new_facts |-> <<>>, combined |-> <<>>,
     compact_out |-> <<>>, parts |-> <<>>, context_parts |-> <<>>,
     total_chars |-> 0, ctx_i |-> 0, context |-> <<>>, load_i |-> 0]

\* The stores at the start of the process, without snapshots to load;
\* `failed` snapshot writes are counted as having failed already.
ConvStart(failed) ==
    /\ conversation_states = EmptyDict
    /\ user_memories = EmptyDict
    /\ history_file = EmptyDict
    /\ memory_file = EmptyDict
    /\ pc = [h \in Handlers |-> "idle"]
    /\ loc = [h \in Handlers |-> NoLocals]
    /\ next_turn = 0
    /\ write_failures = failed
    /\ g_failed = [u \in Users |-> <<>>]
    /\ g_backlog = [u \in Users |-> FALSE]

ConvInit == ConvStart(0)

-----------------------------------------------------------------------------
(* The handlers.  A handler is one on_message task; it gives way to the    *)
(* others at its awaits, and the blocking calls it hands to the executor   *)
(* (the completion, generate_summary, compress_summary) return at any      *)
(* later moment with any outcome.  What a thread does between two blocking *)
(* calls is one step.                                                      *)
(*                                                                         *)
(* loc[h].state is the handler's variable `state`: "live" while the object *)
(* it refers to is the one in conversation_states, "orphan" once /clear or *)
(* /new has put a new ConversationState in its place; what is written to   *)
(* an orphan is never read again.                                          *)

Idle(h) == pc[h] = "idle"

\* A new task takes the first free handler.
FreeHandler(h) == Idle(h) /\ \A x \in Handlers : Idle(x) => h <= x

\* conversation_states[u] = ConversationState() makes orphans of the
\* objects the other handlers hold.
Orphan(l, u) ==
    [x \in Handlers |->
        IF l[x].user = u /\ l[x].state = "live"
        THEN [l[x] EXCEPT !.state = "orphan"] ELSE l[x]]

\* An assignment to the fields of the handler's `state` object.
WriteState(cs, h, rec) ==
    IF loc[h].state = "live" THEN Put(cs, loc[h].user, rec) ELSE cs

Done(h, l) ==
    /\ pc' = [pc EXCEPT ![h] = "idle"]
    /\ loc' = [l EXCEPT ![h] = NoLocals]

\* Mutant of MsgStart: build_context leaves the user an empty state.
MsgStart_Resets(h, u) ==
    /\ FreeHandler(h)
    /\ next_turn < MaxTurns
    /\ conversation_states' = Put(conversation_states, u, ConversationState)
    /\ next_turn' = next_turn + 1
    /\ loc' = [loc EXCEPT ![h] = [NoLocals EXCEPT !.user = u,
                                                  !.turn = next_turn + 1]]
    /\ pc' = [pc EXCEPT ![h] = "claude"]
    /\ UNCHANGED <<user_memories, history_file, memory_file, write_failures,
                   g_failed, g_backlog>>
    /\ UNCHANGED <<ckvars, crvars>>

\* on_message -> ask_claude, lines 520-544: build_context, then the first
\* completion call is handed to the executor.
MsgStart(h, u) ==
    /\ FreeHandler(h)
    /\ next_turn < MaxTurns
    /\ conversation_states' = get_conversation_state(conversation_states, u)
    /\ next_turn' = next_turn + 1
    /\ loc' = [loc EXCEPT ![h] = [NoLocals EXCEPT !.user = u,
                                                  !.turn = next_turn + 1]]
    /\ pc' = [pc EXCEPT ![h] = "claude"]
    /\ UNCHANGED <<user_memories, history_file, memory_file, write_failures,
                   g_failed, g_backlog>>
    /\ UNCHANGED <<ckvars, crvars>>

\* Mutant of ClaudeOk: a failed write of the snapshot undoes the turn and
\* the failure message is returned.
ClaudeOk_WriteFailureAborts(h) ==
    /\ pc[h] = "claude"
    /\ LET u   == loc[h].user
           cs1 == get_conversation_state(conversation_states, u)
           cs2 == Put(cs1, u,
                      [cs1[u] EXCEPT !.messages =
                          @ \o <<Message("user", loc[h].turn),
                                 Message("assistant", loc[h].turn)>>])
       IN  \E ok \in WriteOutcomes :
              /\ conversation_states' = IF ok THEN cs2 ELSE cs1
              /\ history_file' = save_history(cs2, ok)
              /\ write_failures' = write_failures + Failed(ok)
              /\ pc' = [pc EXCEPT ![h] = IF ok THEN "compress_wait"
                                         ELSE "reply_error"]
    /\ UNCHANGED <<user_memories, memory_file, loc, next_turn, g_failed,
                   g_backlog>>
    /\ UNCHANGED <<ckvars, crvars>>

\* ask_claude, lines 559-569: the completion printed a reply; the turn is
\* appended and saved and maybe_compress_history is handed to the executor.
ClaudeOk(h) ==
    /\ pc[h] = "claude"
    /\ LET u   == loc[h].user
           cs1 == get_conversation_state(conversation_states, u)
           cs2 == Put(cs1, u,
                      [cs1[u] EXCEPT !.messages =
                          @ \o <<Message("user", loc[h].turn),
                                 Message("assistant", loc[h].turn)>>])
       IN  \E ok \in WriteOutcomes :
              /\ conversation_states' = cs2
              /\ history_file' = save_history(cs2, ok)
              /\ write_failures' = write_failures + Failed(ok)
    /\ pc' = [pc EXCEPT ![h] = "compress_wait"]
    /\ UNCHANGED <<user_memories, memory_file, loc, next_turn, g_failed,
                   g_backlog>>
    /\ UNCHANGED <<ckvars, crvars>>

\* ask_claude, lines 561-562, seen from a worker thread: the user turn is
\* appended.  maybe_compress_history runs in the executor's threads (line
\* 569) while the event loop runs lines 561-566 for another message; the
\* threads read and assign state.messages without a lock, so a step of a
\* thread can fall between the two appends.
ClaudeAppendUser(h) ==
    /\ pc[h] = "claude"
    /\ LET u   == loc[h].user
           cs1 == get_conversation_state(conversation_states, u)
       IN  conversation_states' =
              Put(cs1, u, [cs1[u] EXCEPT !.messages =
                              Append(@, Message("user", loc[h].turn))])
    /\ pc' = [pc EXCEPT ![h] = "claude_append"]
    /\ UNCHANGED <<user_memories, history_file, memory_file, loc, next_turn,
                   write_failures, g_failed, g_backlog>>
    /\ UNCHANGED <<ckvars, crvars>>

\* ask_claude, lines 563-569: the reply is appended to the list that
\* state.messages is now, the snapshot written, maybe_compress_history
\* handed to the executor.
ClaudeAppendReply(h) ==
    /\ pc[h] = "claude_append"
    /\ LET u   == loc[h].user
           cs2 == Put(conversation_states, u,
                      [conversation_states[u] EXCEPT !.messages =
                          Append(@, Message("assistant", loc[h].turn))])
       IN  \E ok \in WriteOutcomes :
              /\ conversation_states' = cs2
              /\ history_file' = save_history(cs2, ok)
              /\ write_failures' = write_failures + Failed(ok)
    /\ pc' = [pc EXCEPT ![h] = "compress_wait"]
    /\ UNCHANGED <<user_memories, memory_file, loc, next_turn, g_failed,
                   g_backlog>>
    /\ UNCHANGED <<ckvars, crvars>>

\* What ends an attempt of the completion call without a reply to record:
\* a non-zero exit status (lines 552-555), empty output (lines 559, 571),
\* the executable missing (lines 586-587), another exception (588-589).
FailureKinds == {"nonzero", "empty", "notfound", "exception"}

\* Mutant of ClaudeTimeout: the first timeout is reported at once.
ClaudeTimeout_NoRetry(h) ==
    /\ pc[h] = "claude"
    /\ loc' = [loc EXCEPT ![h].last_error = "timeout"]
    /\ pc' = [pc EXCEPT ![h] = "reply_error"]
    /\ UNCHANGED <<conversation_states, user_memories, history_file,
                   memory_file, next_turn, write_failures, g_failed, g_backlog>>
    /\ UNCHANGED <<ckvars, crvars>>

\* ask_claude, lines 573-584: the completion timed out; after the backoff
\* sleep it is tried again, unless this was the last attempt: then the
\* failure message is returned.
ClaudeTimeout(h) ==
    /\ pc[h] = "claude"
    /\ IF loc[h].attempt < max_retries - 1
       THEN /\ loc' = [loc EXCEPT ![h].attempt = @ + 1,
                                  ![h].last_error = "timeout"]
            /\ UNCHANGED pc
       ELSE /\ loc' = [loc EXCEPT ![h].last_error = "timeout"]
            /\ pc' = [pc EXCEPT ![h] = "reply_error"]
    /\ UNCHANGED <<conversation_states, user_memories, history_file,
                   memory_file, next_turn, write_failures, g_failed, g_backlog>>
    /\ UNCHANGED <<ckvars, crvars>>

\* Mutant of ClaudeFail: the user turn is recorded although no reply came.
ClaudeFail_RecordsUser(h) ==
    /\ pc[h] = "claude"
    /\ \E kind \in FailureKinds : loc' = [loc EXCEPT ![h].last_error = kind]
    /\ pc' = [pc EXCEPT ![h] = "reply_error"]
    /\ LET u   == loc[h].user
           cs1 == get_conversation_state(conversation_states, u)
       IN  conversation_states' =
              Put(cs1, u, [cs1[u] EXCEPT !.messages =
                              Append(@, Message("user", loc[h].turn))])
    /\ UNCHANGED <<user_memories, history_file, memory_file, next_turn,
                   write_failures, g_failed, g_backlog>>
    /\ UNCHANGED <<ckvars, crvars>>

\* ask_claude, lines 552-555, 559, 571, 586-589: non-zero exit status, empty
\* output, executable missing or another exception; the failure message is
\* returned at once, whatever the attempt.
ClaudeFail(h) ==
    /\ pc[h] = "claude"
    /\ \E kind \in FailureKinds : loc' = [loc EXCEPT ![h].last_error = kind]
    /\ pc' = [pc EXCEPT ![h] = "reply_error"]
    /\ UNCHANGED <<conversation_states, user_memories, history_file,
                   memory_file, next_turn, write_failures, g_failed, g_backlog>>
    /\ UNCHANGED <<ckvars, crvars>>

\* on_message, lines 892-900: the failure message ask_claude returned is
\* sent to the channel and the handler ends.
ReplyError(h) ==
    /\ pc[h] = "reply_error"
    /\ Done(h, loc)
    /\ UNCHANGED <<conversation_states, user_memories, history_file,
                   memory_file, next_turn, write_failures, g_failed, g_backlog>>
    /\ UNCHANGED <<ckvars, crvars>>

\* Mutant of NeedsCompress: the cycle starts only above the threshold.
NeedsCompress_Above(messages) == Len(messages) > MAX_MESSAGES_BEFORE_COMPRESS

\* len(state.messages) >= MAX_MESSAGES_BEFORE_COMPRESS (line 430)
NeedsCompress(messages) == Len(messages) >= MAX_MESSAGES_BEFORE_COMPRESS

\* state.messages[:MESSAGES_TO_SUMMARIZE] (line 432)
ToSummarize(messages) == Take(messages, MESSAGES_TO_SUMMARIZE)

\* Mutant of ToKeep: one turn too many leaves the window.
ToKeep_OffByOne(messages) == Drop(messages, MESSAGES_TO_SUMMARIZE + 1)

\* state.messages[MESSAGES_TO_SUMMARIZE:] (line 433)
ToKeep(messages) == Drop(messages, MESSAGES_TO_SUMMARIZE)

\* maybe_compress_history, lines 428-437: the thread looks the state up and,
\* at the threshold, submits the oldest block to generate_summary.
CompressStart(h) ==
    /\ pc[h] = "compress_wait"
    /\ LET u   == loc[h].user
           cs1 == get_conversation_state(conversation_states, u)
       IN  /\ conversation_states' = cs1
           /\ IF NeedsCompress(cs1[u].messages)
              THEN /\ loc' = [loc EXCEPT
                        ![h].state = "live",
                        ![h].to_summarize = ToSummarize(cs1[u].messages),
                        ![h].to_keep = ToKeep(cs1[u].messages),
                        ![h].old_summary = cs1[u].summary]
                   /\ pc' = [pc EXCEPT ![h] = "compress_gen"]
              ELSE Done(h, loc)
    /\ UNCHANGED <<user_memories, history_file, memory_file, next_turn,
                   write_failures, g_failed, g_backlog>>
    /\ UNCHANGED <<ckvars, crvars>>

\* generate_summary returns (line 437).
CompressGenReturn(h) ==
    /\ pc[h] = "compress_gen"
    /\ \E r \in GenResults :
          loc' = [loc EXCEPT ![h].new_summary = r.summary,
                             ![h].new_facts = r.facts]
    /\ pc' = [pc EXCEPT ![h] = "compress_merge"]
    /\ UNCHANGED <<conversation_states, user_memories, history_file,
                   memory_file, next_turn, write_failures, g_failed, g_backlog>>
    /\ UNCHANGED <<ckvars, crvars>>

\* Mutant of StoredMessages: the summarized block is not removed.
StoredMessages_KeepsBlock(l) == l.to_summarize \o l.to_keep

\* state.messages = to_keep (line 451)
StoredMessages(l) == l.to_keep

\* Lines 445/447/449 and 451-459: the summary is stored when `stored`, the
\* block removed, the snapshots written, the facts merged.
CompressFinish(h, stored, summ) ==
    LET l   == loc[h]
        u   == l.user
        cs2 == IF stored
               THEN WriteState(conversation_states, h,
                               [summary |-> summ, messages |-> StoredMessages(l)])
               ELSE conversation_states
        um2 == IF l.new_facts # <<>>
               THEN merge_memory_facts(user_memories, u, l.new_facts)
               ELSE user_memories
    IN  /\ conversation_states' = cs2
        /\ user_memories' = um2
        /\ \E okh, okm \in WriteOutcomes :
              /\ ~stored => okh
              /\ l.new_facts = <<>> => okm
              /\ write_failures + Failed(okh) + Failed(okm) <= MaxWriteFailures
              /\ history_file' = IF stored THEN save_history(cs2, okh)
                                 ELSE history_file
              /\ memory_file' = IF l.new_facts # <<>> THEN save_memory(um2, okm)
                                ELSE memory_file
              /\ write_failures' = write_failures + Failed(okh) + Failed(okm)
        /\ g_failed' = [g_failed EXCEPT ![u] =
                           IF ~stored THEN l.to_summarize
                           ELSE IF l.state = "live" THEN <<>> ELSE @]
        /\ g_backlog' = [g_backlog EXCEPT ![u] = IF ~stored THEN TRUE ELSE @]
        /\ Done(h, loc)
        /\ UNCHANGED next_turn
        /\ UNCHANGED <<ckvars, crvars>>

\* Does the merged summary go through compress_summary? (lines 439-444)
NeedsRecompress(l) ==
    /\ l.new_summary # <<>>
    /\ l.old_summary # <<>>
    /\ Len(Combined(l.old_summary, l.new_summary)) > MAX_SUMMARY_CHARS

\* Mutant of CompressMerge: the block is dropped whatever generate_summary
\* returned.
CompressMerge_Always(h) ==
    /\ pc[h] = "compress_merge"
    /\ ~NeedsRecompress(loc[h])
    /\ CompressFinish(h, TRUE, loc[h].old_summary \o loc[h].new_summary)

\* maybe_compress_history, lines 439-459, when compress_summary is not
\* called: the cycle ends here.
CompressMerge(h) ==
    /\ pc[h] = "compress_merge"
    /\ ~NeedsRecompress(loc[h])
    /\ LET l == loc[h]
       IN  CompressFinish(h, l.new_summary # <<>>,
                          IF l.old_summary # <<>>
                          THEN Combined(l.old_summary, l.new_summary)
                          ELSE l.new_summary)

\* maybe_compress_history, lines 442-445: the merged summary is too long
\* and is submitted to compress_summary.
CompressRecompress(h) ==
    /\ pc[h] = "compress_merge"
    /\ NeedsRecompress(loc[h])
    /\ loc' = [loc EXCEPT ![h].combined =
                   Combined(loc[h].old_summary, loc[h].new_summary)]
    /\ pc' = [pc EXCEPT ![h] = "compress_sum"]
    /\ UNCHANGED <<conversation_states, user_memories, history_file,
                   memory_file, next_turn, write_failures, g_failed, g_backlog>>
    /\ UNCHANGED <<ckvars, crvars>>

\* The call of compress_summary ends (lines 376-393).
CompressSumReturn(h) ==
    /\ pc[h] = "compress_sum"
    /\ \E out \in CompactOutputs : loc' = [loc EXCEPT ![h].compact_out = out]
    /\ pc' = [pc EXCEPT ![h] = "compress_store"]
    /\ UNCHANGED <<conversation_states, user_memories, history_file,
                   memory_file, next_turn, write_failures, g_failed, g_backlog>>
    /\ UNCHANGED <<ckvars, crvars>>

\* maybe_compress_history, lines 445 and 451-459, after compress_summary.
CompressStore(h) ==
    /\ pc[h] = "compress_store"
    /\ CompressFinish(h, TRUE,
                      compress_summary(loc[h].combined, loc[h].compact_out))

\* on_message, /summarize, lines 816-827: nothing to do without messages;
\* otherwise the messages are submitted to generate_summary.
SummarizeStart(h, u) ==
    /\ FreeHandler(h)
    /\ LET cs1 == get_conversation_state(conversation_states, u)
       IN  /\ conversation_states' = cs1
           /\ IF cs1[u].messages = <<>>
              THEN UNCHANGED <<pc, loc>>
              ELSE /\ loc' = [loc EXCEPT ![h] = [NoLocals EXCEPT
                                      !.user = u,
                                      !.state = "live",
                                      !.to_summarize = cs1[u].messages]]
                   /\ pc' = [pc EXCEPT ![h] = "summarize_gen"]
    /\ UNCHANGED <<user_memories, history_file, memory_file, next_turn,
                   write_failures, g_failed, g_backlog>>
    /\ UNCHANGED <<ckvars, crvars>>

\* generate_summary returns to /summarize (lines 825-827).
SummarizeGenReturn(h) ==
    /\ pc[h] = "summarize_gen"
    /\ \E r \in GenResults :
          loc' = [loc EXCEPT ![h].new_summary = r.summary,
                             ![h].new_facts = r.facts]
    /\ pc' = [pc EXCEPT ![h] = "summarize_merge"]
    /\ UNCHANGED <<conversation_states, user_memories, history_file,
                   memory_file, next_turn, write_failures, g_failed, g_backlog>>
    /\ UNCHANGED <<ckvars, crvars>>

\* on_message, /summarize, lines 829-849: a non-empty summary is appended
\* to the stored one, the messages are emptied, facts merged, snapshots
\* written; an empty one changes nothing.
SummarizeMerge(h) ==
    /\ pc[h] = "summarize_merge"
    /\ LET l      == loc[h]
           u      == l.user
           stored == l.new_summary # <<>>
           cur    == IF l.state = "live" THEN conversation_states[u].summary
                     ELSE <<>>
           cs2    == IF stored
                     THEN WriteState(conversation_states, h,
                             [summary  |-> IF cur # <<>>
                                           THEN Combined(cur, l.new_summary)
                                           ELSE l.new_summary,
                              messages |-> <<>>])
                     ELSE conversation_states
           merged == stored /\ l.new_facts # <<>>
           um2    == IF merged
                     THEN merge_memory_facts(user_memories, u, l.new_facts)
                     ELSE user_memories
       IN  /\ conversation_states' = cs2
           /\ user_memories' = um2
           /\ \E okh, okm \in WriteOutcomes :
                 /\ ~stored => okh
                 /\ ~merged => okm
                 /\ write_failures + Failed(okh) + Failed(okm)
                       <= MaxWriteFailures
                 /\ history_file' = IF stored THEN save_history(cs2, okh)
                                    ELSE history_file
                 /\ memory_file' = IF merged THEN save_memory(um2, okm)
                                   ELSE memory_file
                 /\ write_failures' =
                       write_failures + Failed(okh) + Failed(okm)
           /\ g_failed' = [g_failed EXCEPT ![u] =
                              IF stored /\ l.state = "live" THEN <<>> ELSE @]
           /\ g_backlog' = [g_backlog EXCEPT ![u] =
                               IF stored /\ l.state = "live" THEN FALSE ELSE @]
    /\ Done(h, loc)
    /\ UNCHANGED next_turn
    /\ UNCHANGED <<ckvars, crvars>>

\* Mutant of ResetConversation: every user's conversation is emptied.
ResetConversation_AllUsers(h, u) ==
    /\ \E ok \in WriteOutcomes :
          LET cs2 == [x \in DOMAIN conversation_states \cup {u} |->
                         ConversationState]
          IN  /\ conversation_states' = cs2
              /\ history_file' = save_history(cs2, ok)
              /\ write_failures' = write_failures + Failed(ok)
    /\ g_failed' = [g_failed EXCEPT ![u] = <<>>]
    /\ g_backlog' = [g_backlog EXCEPT ![u] = FALSE]
    /\ Done(h, Orphan(loc, u))

\* conversation_states[uid] = ConversationState(); save_history()
\* (lines 709-710, 734-735, 744-745)
ResetConversation(h, u) ==
    /\ \E ok \in WriteOutcomes :
          LET cs2 == Put(conversation_states, u, ConversationState)
          IN  /\ conversation_states' = cs2
              /\ history_file' = save_history(cs2, ok)
              /\ write_failures' = write_failures + Failed(ok)
    /\ g_failed' = [g_failed EXCEPT ![u] = <<>>]
    /\ g_backlog' = [g_backlog EXCEPT ![u] = FALSE]
    /\ Done(h, Orphan(loc, u))

\* on_message, /clear, lines 707-712
Clear(h, u) ==
    /\ FreeHandler(h)
    /\ ResetConversation(h, u)
    /\ UNCHANGED <<user_memories, memory_file, next_turn>>
    /\ UNCHANGED <<ckvars, crvars>>

\* on_message, /new, lines 715-719 and 743-746: a short conversation is
\* reset at once.
NewShort(h, u) ==
    /\ FreeHandler(h)
    /\ Len(get_conversation_state(conversation_states, u)[u].messages)
          < NEW_MIN_MESSAGES
    /\ ResetConversation(h, u)
    /\ UNCHANGED <<user_memories, memory_file, next_turn>>
    /\ UNCHANGED <<ckvars, crvars>>

\* on_message, /new, lines 715-732: a longer one is first submitted to
\* generate_summary for its facts.
NewStart(h, u) ==
    /\ FreeHandler(h)
    /\ u \in DOMAIN conversation_states
    /\ Len(conversation_states[u].messages) >= NEW_MIN_MESSAGES
    /\ loc' = [loc EXCEPT ![h] = [NoLocals EXCEPT !.user = u,
                                                  !.state = "live"]]
    /\ pc' = [pc EXCEPT ![h] = "new_gen"]
    /\ UNCHANGED <<conversation_states, user_memories, history_file,
                   memory_file, next_turn, write_failures, g_failed, g_backlog>>
    /\ UNCHANGED <<ckvars, crvars>>

\* Mutant of NewGenReturn: the extracted facts take the place of the
\* user's facts.
NewGenReturn_ReplacesFacts(h) ==
    /\ pc[h] = "new_gen"
    /\ \E r \in GenResults :
          LET um2 == IF r.facts # <<>>
                     THEN Put(user_memories, loc[h].user, r.facts)
                     ELSE user_memories
          IN  /\ user_memories' = um2
              /\ \E ok \in WriteOutcomes :
                    /\ r.facts = <<>> => ok
                    /\ memory_file' = IF r.facts # <<>> THEN save_memory(um2, ok)
                                      ELSE memory_file
                    /\ write_failures' = write_failures + Failed(ok)
    /\ pc' = [pc EXCEPT ![h] = "new_reset"]
    /\ UNCHANGED <<conversation_states, history_file, loc, next_turn, g_failed,
                   g_backlog>>
    /\ UNCHANGED <<ckvars, crvars>>

\* extract_and_clear, lines 724-730: generate_summary returns; the facts,
\* if any, are merged and saved.
NewGenReturn(h) ==
    /\ pc[h] = "new_gen"
    /\ \E r \in GenResults :
          LET um2 == IF r.facts # <<>>
                     THEN merge_memory_facts(user_memories, loc[h].user, r.facts)
                     ELSE user_memories
          IN  /\ user_memories' = um2
              /\ \E ok \in WriteOutcomes :
                    /\ r.facts = <<>> => ok
                    /\ memory_file' = IF r.facts # <<>> THEN save_memory(um2, ok)
                                      ELSE memory_file
                    /\ write_failures' = write_failures + Failed(ok)
    /\ pc' = [pc EXCEPT ![h] = "new_reset"]
    /\ UNCHANGED <<conversation_states, history_file, loc, next_turn, g_failed,
                   g_backlog>>
    /\ UNCHANGED <<ckvars, crvars>>

\* on_message, /new, lines 734-735: the conversation is reset.
NewReset(h) ==
    /\ pc[h] = "new_reset"
    /\ ResetConversation(h, loc[h].user)
    /\ UNCHANGED <<user_memories, memory_file, next_turn>>
    /\ UNCHANGED <<ckvars, crvars>>

-----------------------------------------------------------------------------
(* The fact store: merge_memory_facts applied to bounded candidate lists,  *)
(* the /forget commands, and the state main() loads at startup.            *)

\* Number of candidate facts in one call of merge_memory_facts.
MaxNewFacts == 2

FactC == <<"C">>

\* Candidate facts: plain ones, one differing in case only, one with
\* surrounding blanks, an empty and a blank one.
Candidates == {FactA, FactB, FactC, <<"a">>, <<SP, "A", SP>>, <<>>, <<SP>>}

\* The facts a stored list is made of.
PlainFacts == {FactA, FactB, FactC, <<"a">>}

\* The lists of at most n facts taken from the set of facts F.
RECURSIVE FactLists(_, _)
FactLists(F, n) ==
    IF n = 0 THEN {<<>>}
    ELSE LET shorter == FactLists(F, n - 1)
         IN  shorter \cup {Append(q, c) : q \in shorter, c \in F}

\* No fact stands twice in q.
NoDuplicate(q) == \A i, j \in 1..Len(q) : q[i] = q[j] => i = j

\* The fact lists a user can hold when merge_memory_facts is called.
ExistingLists == {q \in FactLists(PlainFacts, MAX_MEMORY_FACTS) : NoDuplicate(q)}

\* The fact lists the summarizer's output is parsed into in SpecMem.
ParsedLists == FactLists({FactA, FactB, FactC}, MaxNewFacts) \ {<<>>}

\* load_memory (lines 273-286): the dict after the call on an empty dict.
load_memory(file) ==
    [u \in {x \in Users : Str(x) \in DOMAIN file} |-> file[Str(u)].facts]

\* load_history (lines 311-343), records of the current format: the dict
\* after the call on an empty dict.
load_history(file) ==
    [u \in {x \in Users : Str(x) \in DOMAIN file} |->
        [summary  |-> file[Str(u)].summary,
         messages |-> [i \in 1..Len(file[Str(u)].messages) |->
                          Message(file[Str(u)].messages[i].role,
                                  file[Str(u)].messages[i].content)]]]

\* The snapshots an earlier run of the program can have left behind.
StoredFacts == {<<>>, <<FactA>>, <<FactA, FactB>>}
MemoryFiles == {MemoryData([u \in Users |-> f[u]]) : f \in [Users -> StoredFacts]}
HistoryFiles ==
    { HistoryData(EmptyDict),
      HistoryData(Put(EmptyDict, 101,
                      [summary  |-> <<"s">>,
                       messages |-> <<Message("user", 0),
                                      Message("assistant", 0)>>])) }

\* main(), lines 903-909: the snapshots are loaded before the client runs.
MemInit ==
    /\ history_file \in HistoryFiles
    /\ memory_file \in MemoryFiles
    /\ conversation_states = load_history(history_file)
    /\ user_memories = load_memory(memory_file)
    /\ pc = [h \in Handlers |-> "idle"]
    /\ loc = [h \in Handlers |-> NoLocals]
    /\ next_turn = 0
    /\ write_failures = 0
    /\ g_failed = [u \in Users |-> <<>>]
    /\ g_backlog = [u \in Users |-> FALSE]

\* main(), lines 903-909, with snapshots that hold a conversation and
\* facts of user 102 and nothing of user 101.
StoreInit ==
    /\ history_file =
          HistoryData(Put(EmptyDict, 102,
                          [summary  |-> <<"s">>,
                           messages |-> <<Message("user", 0),
                                          Message("assistant", 0)>>]))
    /\ memory_file = MemoryData(Put(EmptyDict, 102, <<FactA, FactB>>))
    /\ conversation_states = load_history(history_file)
    /\ user_memories = load_memory(memory_file)
    /\ pc = [h \in Handlers |-> "idle"]
    /\ loc = [h \in Handlers |-> NoLocals]
    /\ next_turn = 0
    /\ write_failures = 0
    /\ g_failed = [u \in Users |-> <<>>]
    /\ g_backlog = [u \in Users |-> FALSE]

\* merge_memory_facts is about to be called for a user with any list of
\* facts and any list of candidates.
MergeInit ==
    /\ history_file = EmptyDict
    /\ conversation_states = EmptyDict
    /\ \E u \in Users, existing \in ExistingLists :
          /\ user_memories \in {EmptyDict, Put(EmptyDict, u, existing)}
          /\ memory_file = MemoryData(user_memories)
          /\ \E new_facts \in FactLists(Candidates, MaxNewFacts) :
                loc = [h \in Handlers |->
                          IF h = 1 THEN [NoLocals EXCEPT !.user = u,
                                                         !.new_facts = new_facts]
                          ELSE NoLocals]
    /\ pc = [h \in Handlers |-> IF h = 1 THEN "merge_facts" ELSE "idle"]
    /\ next_turn = 0
    /\ write_failures = 0
    /\ g_failed = [u \in Users |-> <<>>]
    /\ g_backlog = [u \in Users |-> FALSE]

\* A summarizer output has been parsed into new_facts for user u: the
\* caller is about to call merge_memory_facts (lines 456, 726, 837).
MergeCall(h, u, new_facts) ==
    /\ FreeHandler(h)
    /\ loc' = [loc EXCEPT ![h] = [NoLocals EXCEPT !.user = u,
                                                  !.new_facts = new_facts]]
    /\ pc' = [pc EXCEPT ![h] = "merge_facts"]
    /\ UNCHANGED <<conversation_states, user_memories, history_file,
                   memory_file, next_turn, write_failures, g_failed, g_backlog>>
    /\ UNCHANGED <<ckvars, crvars>>

\* merge_memory_facts(user_id, new_facts) (lines 457, 727, 838)
MergeFacts(h) ==
    /\ pc[h] = "merge_facts"
    /\ user_memories' =
          merge_memory_facts(user_memories, loc[h].user, loc[h].new_facts)
    /\ pc' = [pc EXCEPT ![h] = "save_memory"]
    /\ UNCHANGED <<conversation_states, history_file, memory_file, loc,
                   next_turn, write_failures, g_failed, g_backlog>>
    /\ UNCHANGED <<ckvars, crvars>>

\* save_memory() after the merge (lines 458, 728, 839)
SaveMemory(h) ==
    /\ pc[h] = "save_memory"
    /\ \E ok \in WriteOutcomes :
          /\ memory_file' = save_memory(user_memories, ok)
          /\ write_failures' = write_failures + Failed(ok)
    /\ Done(h, loc)
    /\ UNCHANGED <<conversation_states, user_memories, history_file,
                   next_turn, g_failed, g_backlog>>
    /\ UNCHANGED <<ckvars, crvars>>

\* del user_memories[uid]; save_memory() (lines 784-785, 797-798)
DeleteMemory(um, u) == [x \in (DOMAIN um) \ {u} |-> um[x]]

\* memory.pop(idx) (line 776)
Pop(q, idx) == SubSeq(q, 1, idx) \o SubSeq(q, idx + 2, Len(q))

\* The fact store after a /forget command, written to the snapshot.
Forgotten(um2) ==
    /\ user_memories' = um2
    /\ \E ok \in WriteOutcomes :
          /\ memory_file' = save_memory(um2, ok)
          /\ write_failures' = write_failures + Failed(ok)

\* Mutant of ForgetAll: the conversation is reset as well.
ForgetAll_AlsoResets(h, u) ==
    /\ FreeHandler(h)
    /\ get_user_memory(user_memories, u) # <<>>
    /\ Forgotten(DeleteMemory(user_memories, u))
    /\ conversation_states' = Put(conversation_states, u, ConversationState)
    /\ UNCHANGED <<history_file, pc, loc, next_turn, g_failed, g_backlog>>
    /\ UNCHANGED <<ckvars, crvars>>

\* on_message, /forget, lines 794-802: the user's facts are deleted; a
\* user without facts is told so.
ForgetAll(h, u) ==
    /\ FreeHandler(h)
    /\ IF get_user_memory(user_memories, u) # <<>>
       THEN Forgotten(DeleteMemory(user_memories, u))
       ELSE UNCHANGED <<user_memories, memory_file, write_failures>>
    /\ UNCHANGED <<conversation_states, history_file, pc, loc, next_turn,
                   g_failed, g_backlog>>
    /\ UNCHANGED <<ckvars, crvars>>

\* Mutant of ForgetIndex: the fact is removed but the snapshot not written.
ForgetIndex_NoSave(h, u, n) ==
    /\ FreeHandler(h)
    /\ LET memory == get_user_memory(user_memories, u)
           idx    == n - 1
       IN  IF memory # <<>> /\ 0 <= idx /\ idx < Len(memory)
           THEN user_memories' = Put(user_memories, u, Pop(memory, idx))
           ELSE UNCHANGED user_memories
    /\ UNCHANGED <<conversation_states, history_file, memory_file, pc, loc,
                   next_turn, write_failures, g_failed, g_backlog>>
    /\ UNCHANGED <<ckvars, crvars>>

\* on_message, /forget <n>, lines 765-780: fact n (counted from 1) is
\* removed; without facts, or with n out of range, nothing changes.
ForgetIndex(h, u, n) ==
    /\ FreeHandler(h)
    /\ LET memory == get_user_memory(user_memories, u)
           idx    == n - 1
       IN  IF memory # <<>> /\ 0 <= idx /\ idx < Len(memory)
           THEN Forgotten(Put(user_memories, u, Pop(memory, idx)))
           ELSE UNCHANGED <<user_memories, memory_file, write_failures>>
    /\ UNCHANGED <<conversation_states, history_file, pc, loc, next_turn,
                   g_failed, g_backlog>>
    /\ UNCHANGED <<ckvars, crvars>>

\* on_message, /forget all, lines 765-771 and 781-786
ForgetArgAll(h, u) ==
    /\ FreeHandler(h)
    /\ IF get_user_memory(user_memories, u) # <<>>
       THEN Forgotten(DeleteMemory(user_memories, u))
       ELSE UNCHANGED <<user_memories, memory_file, write_failures>>
    /\ UNCHANGED <<conversation_states, history_file, pc, loc, next_turn,
                   g_failed, g_backlog>>
    /\ UNCHANGED <<ckvars, crvars>>

-----------------------------------------------------------------------------
(* load_history and load_memory (lines 273-343), one record per step.      *)
(* In SpecLoad a snapshot file is the JSON object json.loads returns: its  *)
(* entries in file order, each a key and a value; a value carries its JSON *)
(* type, the fields of an object and the items of an array.                *)

JsonDict(fields) == [type |-> "dict", fields |-> fields, items |-> <<>>]
JsonList(items) == [type |-> "list", fields |-> [none |-> 0], items |-> items]
JsonOther == [type |-> "str", fields |-> [none |-> 0], items |-> <<>>]

\* d.get(k, default)
Get(d, k, default) == IF k \in DOMAIN d THEN d[k] ELSE default

\* A key that is not the decimal form of an integer: int(uid) raises.
BadKey == <<"nan", 0>>
Numeric(key) == key[1] = "str"

\* int(uid)
IntOf(key) == key[2]

\* m.timestamp.isoformat() and a text datetime.fromisoformat rejects; the
\* timestamp itself is left out of the model's Message.
IsoTime == "iso"
BadTime == "bad"

\* The entry save_history writes for a message (lines 295-299), as read
\* back by json.loads.
MessageEntry(m) == [role |-> m.role, content |-> m.content, timestamp |-> IsoTime]

\* Message(m["role"], m["content"], datetime.fromisoformat(m["timestamp"]))
\* (lines 322-324, 333-335) raises for an entry without one of the keys or
\* with an unreadable timestamp.
MessageRaises(m) ==
    IF {"role", "content", "timestamp"} \subseteq DOMAIN m
    THEN m.timestamp # IsoTime
    ELSE TRUE

\* The entries of the messages of a record value (lines 325, 336).
MessageEntries(value) ==
    IF value.type = "list" THEN value.items
    ELSE Get(value.fields, "messages", <<>>)

\* Lines 319-340 raise for this record: a value that is neither an array
\* nor an object has no get(), a message cannot be built, or the key is
\* not a number.
HistoryRecordRaises(rec) ==
    \/ rec.value.type \notin {"list", "dict"}
    \/ \E i \in 1..Len(MessageEntries(rec.value)) :
          MessageRaises(MessageEntries(rec.value)[i])
    \/ ~Numeric(rec.key)

\* Mutant of LoadedState: the legacy array is taken for an object.
LoadedState_LegacyAsObject(value) ==
    LET es == Get(value.fields, "messages", <<>>)
    IN  [summary  |-> Get(value.fields, "summary", <<>>),
         messages |-> [i \in 1..Len(es) |-> Message(es[i].role, es[i].content)]]

\* Lines 319-340: the ConversationState built from a record value.
LoadedState(value) ==
    LET es == MessageEntries(value)
    IN  [summary  |-> IF value.type = "list" THEN <<>>
                      ELSE Get(value.fields, "summary", <<>>),
         messages |-> [i \in 1..Len(es) |-> Message(es[i].role, es[i].content)]]

\* load_history (lines 311-343) on the entries recs from entry i on: the
\* dict after the call.  The try statement encloses the whole loop, so the
\* first record that raises ends it.
RECURSIVE load_history_from(_, _, _)
load_history_from(recs, i, cs) ==
    IF i > Len(recs) \/ HistoryRecordRaises(recs[i]) THEN cs
    ELSE load_history_from(recs, i + 1,
                           Put(cs, IntOf(recs[i].key), LoadedState(recs[i].value)))

\* Lines 279-283 raise for this record: the key is not a number.
MemoryRecordRaises(rec) == ~Numeric(rec.key)

\* Lines 280-283: the dict after one record; a value that is neither an
\* object nor an array is passed over.
LoadedMemory(um, rec) ==
    IF rec.value.type = "dict"
    THEN Put(um, IntOf(rec.key), Get(rec.value.fields, "facts", <<>>))
    ELSE IF rec.value.type = "list"
    THEN Put(um, IntOf(rec.key), rec.value.items)
    ELSE um

\* load_memory (lines 273-286) on the entries recs from entry i on.
RECURSIVE load_memory_from(_, _, _)
load_memory_from(recs, i, um) ==
    IF i > Len(recs) \/ MemoryRecordRaises(recs[i]) THEN um
    ELSE load_memory_from(recs, i + 1, LoadedMemory(um, recs[i]))

\* The sequences that list the elements of the set S once each.
RECURSIVE Orderings(_)
Orderings(S) ==
    IF S = {} THEN {<<>>}
    ELSE UNION { {<<x>> \o q : q \in Orderings(S \ {x})} : x \in S }

\* json.loads of what save_history wrote (lines 291-306) for the
\* conversation states cs, whose keys the dict holds in the order `order`.
HistoryRecords(cs, order) ==
    [i \in 1..Len(order) |->
        [key   |-> Str(order[i]),
         value |-> JsonDict(
            [summary  |-> cs[order[i]].summary,
             messages |-> [k \in 1..Len(cs[order[i]].messages) |->
                              MessageEntry(cs[order[i]].messages[k])]])]]

\* json.loads of what save_memory wrote (lines 259-268): the users with
\* facts, in the order `order` of the dict.
MemoryRecords(um, order) ==
    LET kept == SelectSeq(order, LAMBDA u : um[u] # <<>>)
    IN  [i \in 1..Len(kept) |->
            [key |-> Str(kept[i]), value |-> JsonDict([facts |-> um[kept[i]]])]]

\* The turns of the stored records.
StoredTurns == <<[role |-> "user", content |-> 0, timestamp |-> IsoTime],
                 [role |-> "assistant", content |-> 0, timestamp |-> IsoTime]>>

\* The values a history record can hold: the current shape, an object
\* without messages, the legacy array of messages, and three that cannot be
\* parsed (an unreadable timestamp, a message without timestamp, a value
\* that is neither object nor array).
HistoryValues ==
    { JsonDict([summary |-> <<"s">>, messages |-> StoredTurns]),
      JsonDict([summary |-> <<"s">>]),
      JsonList(StoredTurns),
      JsonDict([summary |-> <<"s">>,
                messages |-> <<[role |-> "user", content |-> 0,
                                timestamp |-> BadTime]>>]),
      JsonList(<<[role |-> "user", content |-> 0]>>),
      JsonOther }

\* The values a memory record can hold: the current shape, an object
\* without facts, the legacy array of facts, and a value of another type.
MemoryValues ==
    { JsonDict([facts |-> <<FactA, FactB>>]),
      JsonDict([updated_at |-> IsoTime]),
      JsonList(<<FactA>>),
      JsonOther }

\* Number of records in a snapshot file.
MaxRecords == 2

\* The files with one record for each key of at most MaxRecords of the
\* keys, in any order.
RecordFiles(keys, values) ==
    UNION { UNION { { [i \in 1..Len(order) |->
                         [key |-> order[i], value |-> vs[i]]] :
                      vs \in [1..Len(order) -> values] } :
                    order \in Orderings(K) } :
            K \in {X \in SUBSET keys : Cardinality(X) <= MaxRecords} }

\* main(), lines 903-907: the stores are empty, the snapshot files hold
\* what an earlier run, an earlier version or an editor left.
LoadInit ==
    /\ history_file \in RecordFiles({Str(u) : u \in Users}, HistoryValues)
    /\ memory_file \in RecordFiles({Str(u) : u \in Users} \cup {BadKey},
                                   MemoryValues)
    /\ conversation_states = EmptyDict
    /\ user_memories = EmptyDict
    /\ pc = [h \in Handlers |-> IF h = 1 THEN "load_history" ELSE "idle"]
    /\ loc = [h \in Handlers |->
                 IF h = 1 THEN [NoLocals EXCEPT !.load_i = 1] ELSE NoLocals]
    /\ next_turn = 0
    /\ write_failures = 0
    /\ g_failed = [u \in Users |-> <<>>]
    /\ g_backlog = [u \in Users |-> FALSE]

\* load_history, lines 317-340: one record is read and stored.
LoadHistoryRecord(h) ==
    /\ pc[h] = "load_history"
    /\ loc[h].load_i <= Len(history_file)
    /\ ~HistoryRecordRaises(history_file[loc[h].load_i])
    /\ LET rec == history_file[loc[h].load_i]
       IN  conversation_states' =
              Put(conversation_states, IntOf(rec.key), LoadedState(rec.value))
    /\ loc' = [loc EXCEPT ![h].load_i = @ + 1]
    /\ UNCHANGED <<user_memories, history_file, memory_file, pc, next_turn,
                   write_failures, g_failed, g_backlog>>
    /\ UNCHANGED <<ckvars, crvars>>

\* load_history, lines 342-343: a record raises; the exception is logged
\* and load_history returns, main() goes on with load_memory.
LoadHistoryFails(h) ==
    /\ pc[h] = "load_history"
    /\ loc[h].load_i <= Len(history_file)
    /\ HistoryRecordRaises(history_file[loc[h].load_i])
    /\ pc' = [pc EXCEPT ![h] = "load_memory"]
    /\ loc' = [loc EXCEPT ![h].load_i = 1]
    /\ UNCHANGED <<conversation_states, user_memories, history_file,
                   memory_file, next_turn, write_failures, g_failed, g_backlog>>
    /\ UNCHANGED <<ckvars, crvars>>

\* load_history, line 341: no record is left.
LoadHistoryEnd(h) ==
    /\ pc[h] = "load_history"
    /\ loc[h].load_i > Len(history_file)
    /\ pc' = [pc EXCEPT ![h] = "load_memory"]
    /\ loc' = [loc EXCEPT ![h].load_i = 1]
    /\ UNCHANGED <<conversation_states, user_memories, history_file,
                   memory_file, next_turn, write_failures, g_failed, g_backlog>>
    /\ UNCHANGED <<ckvars, crvars>>

\* load_memory, lines 279-283: one record is read.
LoadMemoryRecord(h) ==
    /\ pc[h] = "load_memory"
    /\ loc[h].load_i <= Len(memory_file)
    /\ ~MemoryRecordRaises(memory_file[loc[h].load_i])
    /\ user_memories' = LoadedMemory(user_memories, memory_file[loc[h].load_i])
    /\ loc' = [loc EXCEPT ![h].load_i = @ + 1]
    /\ UNCHANGED <<conversation_states, history_file, memory_file, pc,
                   next_turn, write_failures, g_failed, g_backlog>>
    /\ UNCHANGED <<ckvars, crvars>>

\* load_memory, lines 285-286, then main(), line 909: a record raises; the
\* exception is logged and the client is started.
LoadMemoryFails(h) ==
    /\ pc[h] = "load_memory"
    /\ loc[h].load_i <= Len(memory_file)
    /\ MemoryRecordRaises(memory_file[loc[h].load_i])
    /\ Done(h, loc)
    /\ UNCHANGED <<conversation_states, user_memories, history_file,
                   memory_file, next_turn, write_failures, g_failed, g_backlog>>
    /\ UNCHANGED <<ckvars, crvars>>

\* load_memory, line 284, then main(), line 909: no record is left and the
\* client is started.
LoadMemoryEnd(h) ==
    /\ pc[h] = "load_memory"
    /\ loc[h].load_i > Len(memory_file)
    /\ Done(h, loc)
    /\ UNCHANGED <<conversation_states, user_memories, history_file,
                   memory_file, next_turn, write_failures, g_failed, g_backlog>>
    /\ UNCHANGED <<ckvars, crvars>>

-----------------------------------------------------------------------------
(* build_context (lines 462-502), one iteration of its loop per step.      *)

\* Number of turns in the conversations build_context is applied to.
MaxCtxMessages == 3

\* MAX_CONTEXT_CHARS (8000 in the source) and MAX_MEMORY_CHARS (1500),
\* scaled down.
MAX_CONTEXT_CHARS == 24
MAX_MEMORY_CHARS == 5

\* role.capitalize()
Capitalize(role) ==
    IF role = "user" THEN <<"U", "s", "e", "r">>
    ELSE <<"A", "s", "s", "i", "s", "t", "a", "n", "t">>

\* f"{msg.role.capitalize()}: {msg.content}" (line 492)
Entry(msg) == Capitalize(msg.role) \o <<":", SP>> \o msg.content

\* sep.join(ls)
RECURSIVE JoinWith(_, _)
JoinWith(sep, ls) ==
    IF ls = <<>> THEN <<>>
    ELSE IF Len(ls) = 1 THEN ls[1]
    ELSE ls[1] \o sep \o JoinWith(sep, Tail(ls))

\* The constant texts of the context, shortened: the timestamp line, the
\* guardrails, and the headers of the three sections.
TimestampText == <<"t">>
SAFETY_GUARDRAILS == <<"g">>
MemoryHeader == <<"[", "M", "]">>
SummaryHeader == <<"[", "S", "]">>
RecentHeader == <<"[", "R", "]">>

\* Lines 474-479: the memory section, cut at MAX_MEMORY_CHARS.
MemoryText(memory) ==
    LET memory_text == Join([k \in 1..Len(memory) |-> <<"-", SP>> \o memory[k]])
    IN  IF Len(memory_text) > MAX_MEMORY_CHARS
        THEN Take(memory_text, MAX_MEMORY_CHARS) \o <<NL, ".", ".", ".">>
        ELSE memory_text

\* Lines 465-483: the parts that stand before the recent conversation.
HeadParts(state, memory) ==
    <<TimestampText, SAFETY_GUARDRAILS>>
        \o (IF memory # <<>>
            THEN << MemoryHeader \o <<NL>> \o MemoryText(memory) >> ELSE <<>>)
        \o (IF state.summary # <<>>
            THEN << SummaryHeader \o <<NL>> \o state.summary >> ELSE <<>>)

\* The contents of the turns build_context is applied to: with its label a
\* turn is 7, 12, 17, 20 or 25 characters long.
CtxContents == {Repeat("x", 1), Repeat("x", 6), Repeat("x", 14)}

\* The lists of at most n turns.
RECURSIVE CtxMessageLists(_)
CtxMessageLists(n) ==
    IF n = 0 THEN {<<>>}
    ELSE LET shorter == CtxMessageLists(n - 1)
         IN  shorter \cup {Append(q, Message(r, c)) :
                              q \in shorter, r \in {"user", "assistant"},
                              c \in CtxContents}

\* ask_claude is about to call build_context (line 521) for a user with
\* any stored conversation and facts.
CtxInit ==
    /\ \E u \in Users :
          /\ conversation_states \in
                {EmptyDict} \cup
                { Put(EmptyDict, u, [summary |-> sm, messages |-> q]) :
                     sm \in {<<>>, <<"s">>}, q \in CtxMessageLists(MaxCtxMessages) }
          /\ user_memories \in
                { EmptyDict, Put(EmptyDict, u, <<FactA>>),
                  Put(EmptyDict, u, <<FactA, FactB>>) }
          /\ loc = [h \in Handlers |->
                       IF h = 1 THEN [NoLocals EXCEPT !.user = u] ELSE NoLocals]
    /\ history_file = HistoryData(conversation_states)
    /\ memory_file = MemoryData(user_memories)
    /\ pc = [h \in Handlers |-> IF h = 1 THEN "build_context" ELSE "idle"]
    /\ next_turn = 0
    /\ write_failures = 0
    /\ g_failed = [u \in Users |-> <<>>]
    /\ g_backlog = [u \in Users |-> FALSE]

\* build_context, lines 464-488: the state is looked up, the first parts
\* are made, the loop over the reversed messages is set up.
BuildContextStart(h) ==
    /\ pc[h] = "build_context"
    /\ LET u   == loc[h].user
           cs1 == get_conversation_state(conversation_states, u)
       IN  /\ conversation_states' = cs1
           /\ loc' = [loc EXCEPT
                 ![h].parts = HeadParts(cs1[u], get_user_memory(user_memories, u)),
                 ![h].context_parts = <<>>,
                 ![h].total_chars = 0,
                 ![h].ctx_i = Len(cs1[u].messages)]
           /\ pc' = [pc EXCEPT ![h] = IF cs1[u].messages # <<>>
                                      THEN "context_loop" ELSE "context_join"]
    /\ UNCHANGED <<user_memories, history_file, memory_file, next_turn,
                   write_failures, g_failed, g_backlog>>
    /\ UNCHANGED <<ckvars, crvars>>

\* Mutant of ContextLoop: a turn that does not fit is skipped and the
\* older ones are still looked at.
ContextLoop_Skips(h) ==
    /\ pc[h] = "context_loop"
    /\ LET msg   == conversation_states[loc[h].user].messages[loc[h].ctx_i]
           entry == Entry(msg)
           fits  == loc[h].total_chars + Len(entry) <= MAX_CONTEXT_CHARS
       IN  /\ loc' = [loc EXCEPT
                 ![h].context_parts = IF fits THEN <<entry>> \o @ ELSE @,
                 ![h].total_chars = IF fits THEN @ + Len(entry) ELSE @,
                 ![h].ctx_i = @ - 1]
           /\ pc' = [pc EXCEPT ![h] = IF loc[h].ctx_i = 1
                                      THEN "context_join" ELSE @]
    /\ UNCHANGED <<conversation_states, user_memories, history_file,
                   memory_file, next_turn, write_failures, g_failed, g_backlog>>
    /\ UNCHANGED <<ckvars, crvars>>

\* build_context, lines 491-496: one iteration of the loop, from the
\* newest turn backward; the loop ends at the first turn that does not fit
\* or when no turn is left.
ContextLoop(h) ==
    /\ pc[h] = "context_loop"
    /\ LET msg   == conversation_states[loc[h].user].messages[loc[h].ctx_i]
           entry == Entry(msg)
       IN  IF loc[h].total_chars + Len(entry) > MAX_CONTEXT_CHARS
           THEN /\ pc' = [pc EXCEPT ![h] = "context_join"]
                /\ UNCHANGED loc
           ELSE /\ loc' = [loc EXCEPT
                      ![h].context_parts = <<entry>> \o @,
                      ![h].total_chars = @ + Len(entry),
                      ![h].ctx_i = @ - 1]
                /\ pc' = [pc EXCEPT ![h] = IF loc[h].ctx_i = 1
                                           THEN "context_join" ELSE @]
    /\ UNCHANGED <<conversation_states, user_memories, history_file,
                   memory_file, next_turn, write_failures, g_failed, g_backlog>>
    /\ UNCHANGED <<ckvars, crvars>>

\* build_context, lines 498-502: the recent conversation, if any turn was
\* taken, is the last part; the parts are joined and returned to
\* ask_claude, which hands the completion call to the executor.
ContextJoin(h) ==
    /\ pc[h] = "context_join"
    /\ LET l      == loc[h]
           recent == JoinWith(<<NL, NL>>, l.context_parts)
           parts2 == IF l.context_parts # <<>>
                     THEN Append(l.parts, RecentHeader \o <<NL>> \o recent)
                     ELSE l.parts
       IN  loc' = [loc EXCEPT ![h].parts = parts2,
                              ![h].context = JoinWith(DELIM, parts2)]
    /\ pc' = [pc EXCEPT ![h] = "claude"]
    /\ UNCHANGED <<conversation_states, user_memories, history_file,
                   memory_file, next_turn, write_failures, g_failed, g_backlog>>
    /\ UNCHANGED <<ckvars, crvars>>

-----------------------------------------------------------------------------
(* The scheduler (src/cron_scheduler.py) and its commands                  *)
(* (src/cron_commands.py).                                                 *)
(*                                                                         *)
(* A job id is a number, in the order generate_job_id produced the ids.    *)
(* A character the module's strings cannot hold is written as its code     *)
(* point, one element of the sequence.                                     *)

\* None where the code expects an int
None == -1

\* ScheduleKind (cron_scheduler.py lines 29-32)
AT == "at"
EVERY == "every"
CRON == "cron"

MIN_INTERVAL_SECONDS == 60

\* The number of jobs the commands create.
MaxJobs == 1

\* The handler tasks and the tasks the AsyncScheduler runs _execute_job in.
SchedulerTasks == {11}
Tasks == Handlers \cup SchedulerTasks

\* ScheduleConfig (lines 35-43)
ScheduleConfig(kind, at_timestamp, every_seconds, cron_expr) ==
    [kind |-> kind, at_timestamp |-> at_timestamp,
     every_seconds |-> every_seconds, cron_expr |-> cron_expr,
     timezone |-> "Asia/Taipei"]

\* CronJob (lines 46-58); created_at is left out of the model's job.
CronJob(id, channel_id, user_id, message, schedule, invoke_claude, enabled, description) ==
    [id |-> id, channel_id |-> channel_id, user_id |-> user_id,
     message |-> message, schedule |-> schedule,
     invoke_claude |-> invoke_claude, enabled |-> enabled,
     description |-> description]

NoJob == CronJob(0, 0, 0, <<>>, ScheduleConfig("", None, None, <<>>), FALSE,
                 FALSE, <<>>)

\* CronJob.to_dict (lines 60-78), as json.loads reads it back
to_dict(job) ==
    [id |-> job.id, channel_id |-> job.channel_id, user_id |-> job.user_id,
     message |-> job.message, schedule |-> job.schedule,
     invoke_claude |-> job.invoke_claude, enabled |-> job.enabled,
     created_at |-> IsoTime, description |-> job.description]

\* CronJob.from_dict (lines 80-101) of an entry to_dict wrote
from_dict(data) ==
    CronJob(data.id, data.channel_id, data.user_id, data.message,
            data.schedule, data.invoke_claude, data.enabled,
            data.description)

\* The list _save_jobs writes (lines 168-170), by job id.
JobsData(js) == [id \in DOMAIN js |-> to_dict(js[id])]

\* _save_jobs (lines 166-172): a failed write is logged and the file stays
\* as it was.
save_jobs(js, ok) == IF ok THEN JobsData(js) ELSE jobs_file

\* _load_jobs (lines 152-164) of a file _save_jobs wrote
load_jobs(file) == [id \in DOMAIN file |-> from_dict(file[id])]

\* del d[k]
Delete(d, k) == [x \in (DOMAIN d) \ {k} |-> d[x]]

\* The task slot of no call.
NoRun == [pc |-> "idle", job |-> NoJob, user |-> 0]

\* Nothing sent yet.
NoReply == [user |-> 0, text |-> ""]

\* No scheduler and no list of allowed users: the state of the scheduler's
\* variables and of the environment in the specifications that leave them
\* out.
CronOff ==
    /\ jobs = EmptyDict
    /\ jobs_file = EmptyDict
    /\ schedules = EmptyDict
    /\ runs = [t \in Tasks |-> NoRun]
    /\ sent = NoReply
    /\ next_job = 0
    /\ ALLOWED_USER_IDS = <<>>

-----------------------------------------------------------------------------
(* parse_duration and parse_time_of_day (cron_commands.py lines 34-88).    *)

DigitChars == <<"0", "1", "2", "3", "4", "5", "6", "7", "8", "9">>
IsDigit(c) == \E k \in 1..10 : DigitChars[k] = c

\* int(c) of one digit
DigitVal(c) == (CHOOSE k \in 1..10 : DigitChars[k] = c) - 1

\* int(ds) of a run of digits
RECURSIVE Decimal(_)
Decimal(ds) ==
    IF ds = <<>> THEN 0
    ELSE Decimal(SubSeq(ds, 1, Len(ds) - 1)) * 10 + DigitVal(ds[Len(ds)])

\* str(n) of n >= 0
RECURSIVE DecimalStr(_)
DecimalStr(n) ==
    IF n < 10 THEN <<DigitChars[n + 1]>>
    ELSE DecimalStr(n \div 10) \o <<DigitChars[(n % 10) + 1]>>

\* The upper-case letters of the model's inputs.
UpperCase == <<"A", "D", "H", "L", "M", "S">>
LowerCase == <<"a", "d", "h", "l", "m", "s">>

\* s.lower()
Lower(s) ==
    [k \in 1..Len(s) |->
        IF \E j \in 1..Len(UpperCase) : UpperCase[j] = s[k]
        THEN LowerCase[CHOOSE j \in 1..Len(UpperCase) : UpperCase[j] = s[k]]
        ELSE s[k]]

\* number of leading digits of s
RECURSIVE LeadDigits(_)
LeadDigits(s) ==
    IF s # <<>> /\ IsDigit(Head(s)) THEN 1 + LeadDigits(Tail(s)) ELSE 0

\* The unit words of the four patterns (lines 48-57) and their multipliers.
SecondUnits == {<<"s">>, <<"s", "e", "c">>, <<"U+79D2">>}
MinuteUnits == {<<"m">>, <<"m", "i", "n">>, <<"U+5206">>, <<"U+5206", "U+9418">>}
HourUnits == {<<"h">>, <<"h", "r">>, <<"h", "o", "u", "r">>, <<"U+5C0F", "U+6642">>}
DayUnits == {<<"d">>, <<"d", "a", "y">>, <<"U+5929">>}

\* parse_duration (lines 34-65): digits, optional blanks, a unit word
parse_duration(duration_str) ==
    LET s     == Lower(Strip(duration_str))
        n     == LeadDigits(s)
        rest  == SliceFrom(s, n)
        unit  == SliceFrom(rest, LeadRun(rest, SP))
        value == Decimal(SubSeq(s, 1, n))
    IN  IF n = 0 THEN None
        ELSE IF unit \in SecondUnits THEN value * 1
        ELSE IF unit \in MinuteUnits THEN value * 60
        ELSE IF unit \in HourUnits THEN value * 3600
        ELSE IF unit \in DayUnits THEN value * 86400
        ELSE None

\* `not seconds` of an Optional[int]
Falsy(seconds) == seconds = None \/ seconds = 0

\* parse_time_of_day (lines 68-88): <<hour, minute>>, or <<>> for None
parse_time_of_day(time_str) ==
    LET s == Strip(time_str)
        n == Len(s)
    IN  IF /\ n \in {4, 5}
           /\ s[n - 2] = ":"
           /\ \A k \in (1..n) \ {n - 2} : IsDigit(s[k])
        THEN LET hour   == Decimal(SubSeq(s, 1, n - 3))
                 minute == Decimal(SubSeq(s, n - 1, n))
             IN  IF hour <= 23 /\ minute <= 59 THEN <<hour, minute>>
                 ELSE <<>>
        ELSE <<>>

-----------------------------------------------------------------------------
(* The commands /remind, /every, /daily and /cron, and _execute_job.       *)
(* A command's handler holds, in its task slot, the job it is about to     *)
(* add while the description is generated, and the job it executes for     *)
(* /cron test.                                                             *)

\* The channel the commands arrive on, and the clock reading (seconds) at
\* the moment /remind is handled.
Channel == 7
Now == 1000

\* The description Claude generates for a job.
AiTitle == <<"T">>

\* What is left as it is by the scheduler's commands.
stores == <<conversation_states, user_memories, history_file, memory_file,
            loc, next_turn, g_failed, g_backlog, ALLOWED_USER_IDS>>

\* await message.channel.send(response), the handler returning after it
Respond(u, response) == sent' = [user |-> u, text |-> response]

\* " ".join(args[1:])
RestOf(args) == JoinWith(<<SP>>, Tail(args))

\* build_fallback_description (cron_commands.py lines 114-124)
build_fallback_description(kind, content, time_hint) ==
    IF kind = AT THEN <<"U+63D0", "U+9192", ":", SP>> \o Take(content, 30)
    ELSE IF kind = EVERY THEN <<"U+5B9A", "U+671F", ":", SP>> \o Take(content, 30)
    ELSE Strip(<<"U+6BCF", "U+65E5", SP>> \o time_hint \o <<":", SP>>
               \o Take(content, 20))

\* The number of jobs on their way into the job table.
Pending == Cardinality({t \in Tasks : runs[t].pc = "describe"})

\* The command goes on to generate_schedule_description_with_ai (lines
\* 146-214) with the job it will add.
Describe(h, u, schedule, message, fallback) ==
    /\ next_job + Pending < MaxJobs
    /\ pc' = [pc EXCEPT ![h] = "cron"]
    /\ runs' = [runs EXCEPT ![h] =
                   [pc |-> "describe", user |-> u,
                    job |-> CronJob(0, Channel, u, message, schedule, TRUE,
                                    TRUE, fallback)]]
    /\ UNCHANGED sent

\* The command ends with a message to the user and nothing else.
Refuse(u, response) ==
    /\ Respond(u, response)
    /\ UNCHANGED <<pc, runs>>

\* Mutant of Remind: a duration of zero is taken.
Remind_TakesZero(h, u, args) ==
    /\ FreeHandler(h)
    /\ IF Len(args) < 2 THEN Refuse(u, "usage")
       ELSE LET seconds == parse_duration(args[1])
            IN  IF seconds = None THEN Refuse(u, "unparsable")
                ELSE Describe(h, u,
                              ScheduleConfig(AT, (Now + seconds) * 1000, None, <<>>),
                              RestOf(args),
                              build_fallback_description(AT, RestOf(args), <<>>))
    /\ UNCHANGED <<jobs, jobs_file, schedules, next_job, write_failures>>
    /\ UNCHANGED <<stores, ckvars>>

\* handle_remind_command (cron_commands.py lines 322-353), up to the await
\* of the description
Remind(h, u, args) ==
    /\ FreeHandler(h)
    /\ IF Len(args) < 2 THEN Refuse(u, "usage")
       ELSE LET seconds == parse_duration(args[1])
            IN  IF Falsy(seconds) THEN Refuse(u, "unparsable")
                ELSE Describe(h, u,
                              ScheduleConfig(AT, (Now + seconds) * 1000, None, <<>>),
                              RestOf(args),
                              build_fallback_description(AT, RestOf(args), <<>>))
    /\ UNCHANGED <<jobs, jobs_file, schedules, next_job, write_failures>>
    /\ UNCHANGED <<stores, ckvars>>

\* handle_every_command (lines 375-405), up to the await of the description
Every(h, u, args) ==
    /\ FreeHandler(h)
    /\ IF Len(args) < 2 THEN Refuse(u, "usage")
       ELSE LET seconds == parse_duration(args[1])
            IN  IF Falsy(seconds) THEN Refuse(u, "unparsable")
                ELSE IF seconds < MIN_INTERVAL_SECONDS
                THEN Refuse(u, "below_minimum")
                ELSE Describe(h, u,
                              ScheduleConfig(EVERY, None, seconds, <<>>),
                              RestOf(args),
                              build_fallback_description(EVERY, RestOf(args), <<>>))
    /\ UNCHANGED <<jobs, jobs_file, schedules, next_job, write_failures>>
    /\ UNCHANGED <<stores, ckvars>>

\* handle_daily_command (lines 427-462), up to the await of the description
Daily(h, u, args) ==
    /\ FreeHandler(h)
    /\ IF Len(args) < 2 THEN Refuse(u, "usage")
       ELSE LET time_parts == parse_time_of_day(args[1])
            IN  IF time_parts = <<>> THEN Refuse(u, "unparsable")
                ELSE LET hour      == time_parts[1]
                         minute    == time_parts[2]
                         cron_expr == DecimalStr(minute) \o <<SP>>
                                      \o DecimalStr(hour)
                                      \o <<SP, "*", SP, "*", SP, "*">>
                     IN  Describe(h, u,
                                  ScheduleConfig(CRON, None, None, cron_expr),
                                  RestOf(args),
                                  build_fallback_description(CRON, RestOf(args),
                                                            args[1]))
    /\ UNCHANGED <<jobs, jobs_file, schedules, next_job, write_failures>>
    /\ UNCHANGED <<stores, ckvars>>

\* The job table after a change, written to the jobs file.
Saved(js) ==
    /\ jobs' = js
    /\ \E ok \in WriteOutcomes :
          /\ jobs_file' = save_jobs(js, ok)
          /\ write_failures' = write_failures + Failed(ok)

\* The description is there (or not: None); the job gets its id and goes
\* through add_job (cron_scheduler.py lines 276-288): stored, saved and
\* registered (lines 203-218).  Lines 355-372, 407-424, 464-482 of
\* cron_commands.py.
DescribeReturn(h) ==
    /\ runs[h].pc = "describe"
    /\ \E ai_description \in {<<>>, AiTitle} :
          LET job == [runs[h].job EXCEPT
                         !.id = next_job + 1,
                         !.description =
                             IF ai_description # <<>> THEN ai_description
                             ELSE runs[h].job.description]
          IN  /\ Saved(Put(jobs, job.id, job))
              /\ schedules' = Put(schedules, job.id, job.schedule.kind)
              /\ next_job' = next_job + 1
              /\ Respond(runs[h].user, "job_set")
    /\ pc' = [pc EXCEPT ![h] = "idle"]
    /\ runs' = [runs EXCEPT ![h] = NoRun]
    /\ UNCHANGED <<stores, ckvars>>

\* The ids a user names in /cron commands: those of the jobs and one of no
\* job.
StoredId == 10
AskedIds == (1..MaxJobs) \cup {StoredId}

\* handle_cron_command (lines 253-282, 318-319): the usage text (also for
\* an unknown subcommand or a missing id), list, info
CronShow(h, u) ==
    /\ FreeHandler(h)
    /\ \E response \in {"usage", "list", "info"} : Refuse(u, response)
    /\ UNCHANGED <<jobs, jobs_file, schedules, next_job, write_failures>>
    /\ UNCHANGED <<stores, ckvars>>

\* /cron remove <id> (cron_commands.py lines 284-293) and remove_job
\* (cron_scheduler.py lines 290-302)
CronRemove(h, u, job_id) ==
    /\ FreeHandler(h)
    /\ IF job_id \notin DOMAIN jobs
       THEN /\ Respond(u, "not_found")
            /\ UNCHANGED <<jobs, jobs_file, schedules, write_failures>>
       ELSE /\ schedules' = Delete(schedules, job_id)
            /\ Saved(Delete(jobs, job_id))
            /\ Respond(u, "removed")
    /\ UNCHANGED <<pc, runs, next_job>>
    /\ UNCHANGED <<stores, ckvars>>

\* /cron toggle <id> (cron_commands.py lines 295-305) and toggle_job
\* (cron_scheduler.py lines 304-317) up to the await of the scheduler: the
\* flag of the job is turned over in the table.
CronToggle(h, u, job_id) ==
    /\ FreeHandler(h)
    /\ IF job_id \notin DOMAIN jobs
       THEN /\ Respond(u, "not_found")
            /\ UNCHANGED <<jobs, pc, runs>>
       ELSE LET job == [jobs[job_id] EXCEPT !.enabled = ~jobs[job_id].enabled]
            IN  /\ jobs' = Put(jobs, job_id, job)
                /\ pc' = [pc EXCEPT ![h] = "cron"]
                /\ runs' = [runs EXCEPT ![h] =
                               [pc |-> "toggle", user |-> u, job |-> job]]
                /\ UNCHANGED sent
    /\ UNCHANGED <<jobs_file, schedules, next_job, write_failures>>
    /\ UNCHANGED <<stores, ckvars>>

\* toggle_job after the await (cron_scheduler.py lines 316-322): the
\* schedule is registered (lines 203-218) or taken away (lines 220-229),
\* the table is saved and the command answers with the flag the job has
\* now (cron_commands.py lines 300-305).
ToggleReturn(h) ==
    /\ runs[h].pc = "toggle"
    /\ LET job    == runs[h].job
           latest == IF job.id \in DOMAIN jobs THEN jobs[job.id] ELSE job
       IN  /\ schedules' = IF job.enabled
                           THEN Put(schedules, job.id, job.schedule.kind)
                           ELSE Delete(schedules, job.id)
           /\ Saved(jobs)
           /\ Respond(runs[h].user,
                      IF latest.enabled THEN "enabled" ELSE "disabled")
    /\ pc' = [pc EXCEPT ![h] = "idle"]
    /\ runs' = [runs EXCEPT ![h] = NoRun]
    /\ UNCHANGED next_job
    /\ UNCHANGED <<stores, ckvars>>

\* Mutant of RemoveOneTime: the job is taken out of the table and the file
\* is not written.
RemoveOneTime_NoSave(job) ==
    IF job.schedule.kind = AT /\ job.id \in DOMAIN jobs
    THEN /\ jobs' = Delete(jobs, job.id)
         /\ UNCHANGED <<jobs_file, write_failures>>
    ELSE UNCHANGED <<jobs, jobs_file, write_failures>>

\* _execute_job, lines 267-271, after the callback has returned: a
\* one-time job is deleted and the table saved; the KeyError of a job that
\* is in the table no more is caught (line 273).
RemoveOneTime(job) ==
    IF job.schedule.kind = AT /\ job.id \in DOMAIN jobs
    THEN Saved(Delete(jobs, job.id))
    ELSE UNCHANGED <<jobs, jobs_file, write_failures>>

\* Mutant of ExecuteJob: the flag of the job is not looked at.
ExecuteJob_RunsDisabled(t, u, job_id) ==
    IF job_id \notin DOMAIN jobs
    THEN UNCHANGED <<jobs, jobs_file, write_failures, runs>>
    ELSE \E found \in BOOLEAN :
            IF found
            THEN /\ runs' = [runs EXCEPT ![t] =
                                [pc |-> IF jobs[job_id].invoke_claude
                                        THEN "claude" ELSE "send",
                                 user |-> u, job |-> jobs[job_id]]]
                 /\ UNCHANGED <<jobs, jobs_file, write_failures>>
            ELSE /\ RemoveOneTime(jobs[job_id])
                 /\ UNCHANGED runs

\* _execute_job (lines 231-274) from its start to the first await of the
\* callback, in task t: nothing is done for a job that is not in the table
\* or not enabled; the callback returns at once when the channel is not
\* found (bot_discord.py lines 602-605, 613-615).
ExecuteJob(t, u, job_id) ==
    IF job_id \notin DOMAIN jobs \/ ~jobs[job_id].enabled
    THEN UNCHANGED <<jobs, jobs_file, write_failures, runs>>
    ELSE \E found \in BOOLEAN :
            IF found
            THEN /\ runs' = [runs EXCEPT ![t] =
                                [pc |-> IF jobs[job_id].invoke_claude
                                        THEN "claude" ELSE "send",
                                 user |-> u, job |-> jobs[job_id]]]
                 /\ UNCHANGED <<jobs, jobs_file, write_failures>>
            ELSE /\ RemoveOneTime(jobs[job_id])
                 /\ UNCHANGED runs

\* /cron test <id> (cron_commands.py lines 307-316) and test_job
\* (cron_scheduler.py lines 342-352)
CronTest(h, u, job_id) ==
    /\ FreeHandler(h)
    /\ IF job_id \notin DOMAIN jobs
       THEN /\ Respond(u, "not_found")
            /\ UNCHANGED <<jobs, jobs_file, write_failures, runs, pc>>
       ELSE /\ ExecuteJob(h, u, job_id)
            /\ IF runs'[h].pc = "idle"
               THEN Respond(u, "executed") /\ UNCHANGED pc
               ELSE pc' = [pc EXCEPT ![h] = "cron"] /\ UNCHANGED sent
    /\ UNCHANGED <<schedules, next_job>>
    /\ UNCHANGED <<stores, ckvars>>

\* A schedule of the AsyncScheduler comes due and _execute_job is called
\* in a task of the scheduler; the schedule of a date trigger is used up.
Fire(t, job_id) ==
    /\ t \in SchedulerTasks
    /\ runs[t].pc = "idle"
    /\ job_id \in DOMAIN schedules
    /\ schedules' = IF schedules[job_id] = AT THEN Delete(schedules, job_id)
                    ELSE schedules
    /\ ExecuteJob(t, 0, job_id)
    /\ UNCHANGED <<pc, sent, next_job>>
    /\ UNCHANGED <<stores, ckvars>>

\* Mutant of ExecReturn: the reply of a job that invokes Claude is
\* recorded as a turn of the job's user.
ExecReturn_RecordsTurn(t, raised) ==
    /\ runs[t].pc \in {"claude", "send"}
    /\ IF raised THEN UNCHANGED <<jobs, jobs_file, write_failures>>
       ELSE RemoveOneTime(runs[t].job)
    /\ runs' = [runs EXCEPT ![t] = NoRun]
    /\ IF t \in Handlers
       THEN /\ pc' = [pc EXCEPT ![t] = "idle"]
            /\ Respond(runs[t].user, "executed")
       ELSE UNCHANGED <<pc, sent>>
    /\ UNCHANGED <<schedules, next_job>>
    /\ IF runs[t].pc = "claude" /\ ~raised
       THEN LET u   == runs[t].job.user_id
                cs1 == get_conversation_state(conversation_states, u)
            IN  conversation_states' =
                    Put(cs1, u, [cs1[u] EXCEPT !.messages =
                                    @ \o <<Message("user", 0),
                                           Message("assistant", 0)>>])
       ELSE UNCHANGED conversation_states
    /\ UNCHANGED <<user_memories, history_file, memory_file, loc, next_turn,
                   g_failed, g_backlog, ALLOWED_USER_IDS, ckvars>>

\* The callback of a job returns, or raises what channel.typing() or
\* channel.send() raise (bot_discord.py lines 598-643), and _execute_job
\* goes on to its end (cron_scheduler.py lines 267-274); /cron test
\* answers.
ExecReturn(t, raised) ==
    /\ runs[t].pc \in {"claude", "send"}
    /\ IF raised THEN UNCHANGED <<jobs, jobs_file, write_failures>>
       ELSE RemoveOneTime(runs[t].job)
    /\ runs' = [runs EXCEPT ![t] = NoRun]
    /\ IF t \in Handlers
       THEN /\ pc' = [pc EXCEPT ![t] = "idle"]
            /\ Respond(runs[t].user, "executed")
       ELSE UNCHANGED <<pc, sent>>
    /\ UNCHANGED <<schedules, next_job>>
    /\ UNCHANGED <<stores, ckvars>>

-----------------------------------------------------------------------------
(* /forget with an argument, from the text of the argument.                *)

\* int(arg) succeeds: an optional sign, then digits, single underscores
\* between digits allowed.
IsInt(arg) ==
    LET body == IF arg # <<>> /\ arg[1] \in {"+", "-"} THEN Tail(arg) ELSE arg
    IN  /\ body # <<>>
        /\ \A k \in 1..Len(body) :
              \/ IsDigit(body[k])
              \/ /\ body[k] = "_"
                 /\ 1 < k /\ k < Len(body)
                 /\ IsDigit(body[k - 1]) /\ IsDigit(body[k + 1])

\* int(arg)
IntValue(arg) ==
    LET body == IF arg[1] \in {"+", "-"} THEN Tail(arg) ELSE arg
        value == Decimal(SelectSeq(body, IsDigit))
    IN  IF arg[1] = "-" THEN 0 - value ELSE value

\* ["all", "全部"] (line 782)
AllWords == {<<"a", "l", "l">>, <<"U+5168", "U+90E8">>}

\* on_message, /forget <arg>, lines 765-791: without facts the user is told
\* so; fact int(arg) (counted from 1) is removed; all and its synonym
\* delete the list; anything else is answered with a message.
ForgetCommand(h, u, arg) ==
    /\ FreeHandler(h)
    /\ LET memory == get_user_memory(user_memories, u)
       IN  IF memory = <<>>
           THEN /\ Respond(u, "no_memory")
                /\ UNCHANGED <<user_memories, memory_file, write_failures>>
           ELSE IF IsInt(arg)
           THEN LET idx == IntValue(arg) - 1
                IN  IF 0 <= idx /\ idx < Len(memory)
                    THEN /\ Forgotten(Put(user_memories, u, Pop(memory, idx)))
                         /\ Respond(u, "fact_removed")
                    ELSE /\ Respond(u, "invalid_index")
                         /\ UNCHANGED <<user_memories, memory_file,
                                        write_failures>>
           ELSE IF Lower(arg) \in AllWords
           THEN /\ Forgotten(DeleteMemory(user_memories, u))
                /\ Respond(u, "facts_cleared")
           ELSE /\ Respond(u, "forget_usage")
                /\ UNCHANGED <<user_memories, memory_file, write_failures>>
    /\ UNCHANGED <<conversation_states, history_file, pc, loc, next_turn,
                   g_failed, g_backlog>>
    /\ UNCHANGED <<jobs, jobs_file, schedules, runs, next_job,
                   ALLOWED_USER_IDS>>
    /\ UNCHANGED ckvars

-----------------------------------------------------------------------------
(* The inputs of the commands, and the start of the scheduler.             *)

\* The first argument of /remind and /every.
DurationArgs ==
    {<<"3", "0", "s">>, <<"5", "9", "s">>, <<"6", "0", "s">>, <<"1", "M">>,
     <<"2", "h", "r">>, <<"1", "U+5929">>,
     <<"0", "s">>, <<"0", "0", "m">>, <<"m">>, <<"5">>, <<"5", "x">>,
     <<"s", "5">>, <<"-", "5", "m">>, <<"1", ".", "5", "h">>}

\* The first argument of /daily.
TimeArgs ==
    {<<"0", "9", ":", "0", "0">>, <<"9", ":", "0", "0">>,
     <<"2", "3", ":", "5", "9">>, <<"0", ":", "0", "0">>,
     <<"2", "4", ":", "0", "0">>, <<"1", "2", ":", "6", "0">>,
     <<"9", ":", "5">>, <<"9", "0", "0">>, <<"a", "b", ":", "c", "d">>,
     <<"1", "2", "3", ":", "0", "0">>, <<"9", ":", "0", "0", "0">>}

\* user_message.split()[1:] (bot_discord.py lines 873, 879, 885): no
\* argument, the first alone, or the first and a message of two words.
ArgLists(first) ==
    {<<>>} \cup {<<a>> : a \in first}
           \cup {<<a, <<"w">>, <<"v">>>> : a \in first}

\* The argument of /forget.
ForgetArgs ==
    {<<"1">>, <<"2">>, <<"3">>, <<"0">>, <<"-", "1">>, <<"+", "2">>,
     <<"0", "1">>, <<"1", "_", "0">>, <<"9", "9">>,
     <<"a", "l", "l">>, <<"A", "L", "L">>, <<"U+5168", "U+90E8">>,
     <<"a", "l">>, <<"a", "l", "l", "l">>, <<"1", "x">>, <<"x">>,
     <<"1", ".", "0">>, <<"_", "1">>}

\* The jobs files the process may find at its start: none, or one job of
\* an earlier run.
StoredJob(kind, invoke_claude, enabled) ==
    CronJob(StoredId, Channel, 102, <<"w">>,
            ScheduleConfig(kind,
                           IF kind = AT THEN (Now + 30) * 1000 ELSE None,
                           IF kind = EVERY THEN 3600 ELSE None,
                           IF kind = CRON
                           THEN <<"0", SP, "9", SP, "*", SP, "*", SP, "*">>
                           ELSE <<>>),
            invoke_claude, enabled, <<"d">>)

JobsFiles ==
    {EmptyDict}
    \cup {JobsData(Put(EmptyDict, StoredId, job)) :
             job \in {StoredJob(AT, FALSE, TRUE), StoredJob(EVERY, FALSE, TRUE),
                      StoredJob(CRON, TRUE, FALSE)}}

\* main() (bot_discord.py lines 903-909) and on_ready (lines 646-656):
\* the snapshots are loaded, user 101 has two facts, and
\* CronScheduler.start (cron_scheduler.py lines 129-143) loads the jobs
\* file, one of `files`, and registers the enabled jobs; `failed` writes
\* are counted as having failed already.
CronStart(files, failed) ==
    /\ history_file = EmptyDict
    /\ memory_file = MemoryData(Put(EmptyDict, 101, <<FactA, FactB>>))
    /\ conversation_states = load_history(history_file)
    /\ user_memories = load_memory(memory_file)
    /\ pc = [h \in Handlers |-> "idle"]
    /\ loc = [h \in Handlers |-> NoLocals]
    /\ next_turn = 0
    /\ write_failures = failed
    /\ g_failed = [u \in Users |-> <<>>]
    /\ g_backlog = [u \in Users |-> FALSE]
    /\ jobs_file \in files
    /\ jobs = load_jobs(jobs_file)
    /\ schedules = [id \in {x \in DOMAIN jobs : jobs[x].enabled} |->
                       jobs[id].schedule.kind]
    /\ runs = [t \in Tasks |-> NoRun]
    /\ sent = NoReply
    /\ next_job = 0
    /\ ALLOWED_USER_IDS = <<>>

\* A start with any of the jobs files.
CronInit == CronStart(JobsFiles, 0)

\* A start with a periodic job in the jobs file, and writes that succeed.
InputInit ==
    CronStart({JobsData(Put(EmptyDict, StoredId, StoredJob(EVERY, FALSE, TRUE)))},
              MaxWriteFailures)

-----------------------------------------------------------------------------
(* Specifications.                                                         *)

\* The events a handler starts with.
Start(h, u) ==
    \/ MsgStart(h, u)
    \/ SummarizeStart(h, u)
    \/ Clear(h, u)
    \/ NewShort(h, u)
    \/ NewStart(h, u)

\* The steps a handler goes on with.
Continue(h) ==
    \/ ClaudeOk(h)
    \/ ClaudeTimeout(h)
    \/ ClaudeFail(h)
    \/ ReplyError(h)
    \/ CompressStart(h)
    \/ CompressGenReturn(h)
    \/ CompressMerge(h)
    \/ CompressRecompress(h)
    \/ CompressSumReturn(h)
    \/ CompressStore(h)
    \/ SummarizeGenReturn(h)
    \/ SummarizeMerge(h)
    \/ NewGenReturn(h)
    \/ NewReset(h)

\* No handler is at work.
Quiet == \A h \in Handlers : Idle(h)

Init == ChunkOff /\ CronOff /\ ConvInit

\* Handlers interleave freely, as the event loop lets them.
Next == \E h \in Handlers : (\E u \in Users : Start(h, u)) \/ Continue(h)

Spec == Init /\ [][Next]_vars

\* One message at a time: an event is taken up when the handler of the
\* previous one has returned (the assumption of section 5 of the design).
NextSeq ==
    \E h \in Handlers : (\E u \in Users : Quiet /\ Start(h, u)) \/ Continue(h)

SpecSeq == Init /\ [][NextSeq]_vars

\* The /forget commands (lines 765-802).
Forget(h, u) ==
    \/ ForgetAll(h, u)
    \/ \E n \in 0..(MAX_MEMORY_FACTS + 1) : ForgetIndex(h, u, n)
    \/ ForgetArgAll(h, u)

\* The user whose events SpecRace, SpecMem and SpecStore follow.
ActiveUsers == {101}

\* One user's messages and commands, the /forget commands among them, one
\* at a time, after a start from snapshots that hold other users' data.
NextStore ==
    \E h \in Handlers :
        \/ \E u \in ActiveUsers : Quiet /\ (Start(h, u) \/ Forget(h, u))
        \/ Continue(h)

\* The steps of a handler that the event loop takes (between two awaits).
LoopStep(h) ==
    \/ ClaudeTimeout(h)
    \/ ClaudeFail(h)
    \/ ReplyError(h)
    \/ ClaudeAppendUser(h)
    \/ SummarizeMerge(h)
    \/ NewReset(h)

\* The steps of a handler that a thread of the executor takes.
ThreadStep(h) ==
    \/ CompressStart(h)
    \/ CompressGenReturn(h)
    \/ CompressMerge(h)
    \/ CompressRecompress(h)
    \/ CompressSumReturn(h)
    \/ CompressStore(h)
    \/ SummarizeGenReturn(h)
    \/ NewGenReturn(h)

\* The event loop is not between the two appends of lines 562-563.
LoopFree == \A h \in Handlers : pc[h] # "claude_append"

\* One user's messages handled as the program handles them: a handler
\* gives way at its awaits, the executor's threads run beside the event
\* loop.
NextRace ==
    \E h \in Handlers :
        \/ \E u \in ActiveUsers : LoopFree /\ Start(h, u)
        \/ LoopFree /\ LoopStep(h)
        \/ ClaudeAppendReply(h)
        \/ ThreadStep(h)

\* In SpecRace every snapshot write succeeds.
InitRace == ChunkOff /\ CronOff /\ ConvStart(MaxWriteFailures)

SpecRace == InitRace /\ [][NextRace]_vars

\* The fact store and the commands on it, after a start from snapshots.
MemNext ==
    \E h \in Handlers :
        \/ \E u \in ActiveUsers :
              /\ Quiet
              /\ \/ \E new_facts \in ParsedLists : MergeCall(h, u, new_facts)
                 \/ ForgetAll(h, u)
                 \/ \E n \in 0..(MAX_MEMORY_FACTS + 1) : ForgetIndex(h, u, n)
                 \/ ForgetArgAll(h, u)
                 \/ Clear(h, u)
        \/ MergeFacts(h)
        \/ SaveMemory(h)

\* The user whose events handler h takes up in SpecPair.
UserOf(h) == 100 + h

\* What handler h does for its user.
PairStep(h) ==
    \/ Start(h, UserOf(h))
    \/ Forget(h, UserOf(h))
    \/ Continue(h)

\* Two users at once: the second user's messages and commands arrive
\* while a message of the first is being handled, and the long-running
\* calls of both return in any order.
NextPair == \E h \in Handlers : PairStep(h)

SpecPair == InitRace /\ [][NextPair]_vars

\* The arguments of a command: `first` and a message.
WithMessage(first) == <<first, <<"w">>, <<"v">>>>

\* The arguments of the /remind that SpecCron follows to the execution of
\* its job.
FewDurations == {WithMessage(<<"6", "0", "s">>), <<>>}

\* The scheduler's commands, the schedules coming due, and the callbacks
\* of the jobs returning.  The jobs of kind every and cron are those of
\* the jobs file; /every and /daily are followed in InputNext.
CronNext ==
    \/ \E h \in Handlers, u \in ActiveUsers :
          \/ \E args \in FewDurations :
                Remind(h, u, args)
          \/ CronShow(h, u)
          \/ \E job_id \in AskedIds :
                \/ CronRemove(h, u, job_id)
                \/ CronToggle(h, u, job_id)
                \/ CronTest(h, u, job_id)
    \/ \E h \in Handlers : DescribeReturn(h) \/ ToggleReturn(h)
    \/ \E t \in Tasks :
          \/ \E job_id \in AskedIds : Fire(t, job_id)
          \/ \E raised \in BOOLEAN : ExecReturn(t, raised)

\* The commands that take an argument from the user: /remind, /every,
\* /daily and /forget, with arguments of every form.
InputNext ==
    \/ \E h \in Handlers, u \in ActiveUsers :
          \/ \E args \in ArgLists(DurationArgs) :
                Remind(h, u, args) \/ Every(h, u, args)
          \/ \E args \in ArgLists(TimeArgs) : Daily(h, u, args)
          \/ \E arg \in ForgetArgs : ForgetCommand(h, u, arg)
    \/ \E h \in Handlers : DescribeReturn(h)

\* A job of user u that invokes Claude, in the jobs file of an earlier run.
InvokeJob(u) == [StoredJob(CRON, TRUE, TRUE) EXCEPT !.user_id = u]

\* A start with such a job of one of the users; every write succeeds.
InvokeInit ==
    CronStart({JobsData(Put(EmptyDict, StoredId, InvokeJob(u))) : u \in Users},
              MaxWriteFailures)

\* One user's messages and commands, one at a time, while the schedule of
\* the job comes due in a task of the scheduler and its callback returns
\* or raises at any later moment.
NextInvoke ==
    \/ \E h \in Handlers :
          \/ \E u \in ActiveUsers : Quiet /\ Start(h, u)
          \/ Continue(h)
    \/ \E t \in SchedulerTasks :
          \/ Fire(t, StoredId)
          \/ \E raised \in BOOLEAN : ExecReturn(t, raised)

InitInvoke == ChunkOff /\ InvokeInit

SpecInvoke == InitInvoke /\ [][NextInvoke]_vars

\* Authorization (bot_discord.py lines 346-356) and on_message.

\* s.split(c)
RECURSIVE SplitOn(_, _)
SplitOn(s, c) ==
    LET n == Len(s)
        P == {k \in 1..n : s[k] = c}
    IN  IF P = {} THEN <<s>>
        ELSE LET p == CHOOSE k \in P : \A j \in P : k <= j
             IN  <<SubSeq(s, 1, p - 1)>> \o SplitOn(SubSeq(s, p + 1, n), c)

\* The uid.strip() of line 349 that are not empty.
Uids(s) ==
    LET parts == SplitOn(s, ",")
    IN  {Strip(parts[k]) : k \in 1..Len(parts)} \ {<<>>}

\* int(uid.strip()) raises ValueError for one of them (line 349).
AllowedRaises(s) == s # <<>> /\ \E uid \in Uids(s) : ~IsInt(uid)

\* get_allowed_users (lines 346-349)
get_allowed_users(s) ==
    IF s = <<>> THEN {} ELSE {IntValue(uid) : uid \in Uids(s)}

\* is_authorized (lines 352-356)
is_authorized(s, user_id) ==
    LET allowed == get_allowed_users(s)
    IN  IF allowed = {} THEN TRUE ELSE user_id \in allowed

\* The number of chat messages SpecAuth lets arrive.
MaxAuthTurns == 1

\* The commands on_message goes on to for an authorized user (lines
\* 670-892), taken up when no other message is being handled: a chat
\* message or a command on the conversation, /forget, /remind,
\* /cron remove.
Command(h, u) ==
    /\ Quiet
    /\ \/ Start(h, u) /\ next_turn' <= MaxAuthTurns
       \/ ForgetAll(h, u)
       \/ Remind(h, u, WithMessage(<<"6", "0", "s">>))
       \/ CronRemove(h, u, StoredId)

\* Mutant of OnMessage: is_authorized is not asked.
OnMessage_Open(h, u) ==
    IF AllowedRaises(ALLOWED_USER_IDS)
    THEN FreeHandler(h) /\ UNCHANGED vars
    ELSE Command(h, u)

\* on_message (lines 659-668) for a message of user u that is not the
\* bot's own: the ValueError of get_allowed_users ends the handler; a user
\* who is not authorized is told so and the handler returns; the commands
\* follow for the others.
OnMessage(h, u) ==
    IF AllowedRaises(ALLOWED_USER_IDS)
    THEN FreeHandler(h) /\ UNCHANGED vars
    ELSE IF ~is_authorized(ALLOWED_USER_IDS, u)
    THEN /\ FreeHandler(h)
         /\ Respond(u, "not_authorized")
         /\ UNCHANGED <<jobs, jobs_file, schedules, runs, next_job, pc,
                        write_failures>>
         /\ UNCHANGED <<stores, ckvars>>
    ELSE Command(h, u)

\* The values of ALLOWED_USER_IDS: not set, one user, spaces and empty
\* entries, forms of a number that int() takes, a user that never writes,
\* no number at all, and entries that are not numbers.
AllowedEnv ==
    { <<>>,
      <<"1", "0", "1">>,
      <<"1", "0", "2">>,
      <<SP, "1", "0", "2", SP, ",">>,
      <<"+", "1", "0", "1">>,
      <<"0", "1", "0", "2">>,
      <<"9", "9">>,
      <<",", SP>>,
      <<"x">>,
      <<"1", "0", "1", ",", "x">> }

\* main() and on_ready with one of these values in the environment: the
\* snapshots hold turns and facts of both users, and the jobs file the
\* periodic job of user 102, which start registers; every write succeeds.
AuthInit ==
    /\ ALLOWED_USER_IDS \in AllowedEnv
    /\ history_file =
          HistoryData([u \in Users |->
                          [summary  |-> <<"s">>,
                           messages |-> <<Message("user", 0),
                                          Message("assistant", 0)>>]])
    /\ memory_file = MemoryData([u \in Users |-> <<FactA>>])
    /\ conversation_states = load_history(history_file)
    /\ user_memories = load_memory(memory_file)
    /\ pc = [h \in Handlers |-> "idle"]
    /\ loc = [h \in Handlers |-> NoLocals]
    /\ next_turn = 0
    /\ write_failures = MaxWriteFailures
    /\ g_failed = [u \in Users |-> <<>>]
    /\ g_backlog = [u \in Users |-> FALSE]
    /\ jobs_file = JobsData(Put(EmptyDict, StoredId, StoredJob(EVERY, FALSE, TRUE)))
    /\ jobs = load_jobs(jobs_file)
    /\ schedules = [id \in {x \in DOMAIN jobs : jobs[x].enabled} |->
                       jobs[id].schedule.kind]
    /\ runs = [t \in Tasks |-> NoRun]
    /\ sent = NoReply
    /\ next_job = 0

\* The messages of both users, taken up by on_message, and what the
\* handlers go on with.
NextAuth ==
    \E h \in Handlers :
        \/ \E u \in Users : OnMessage(h, u)
        \/ Continue(h)
        \/ DescribeReturn(h)

InitAuth == ChunkOff /\ AuthInit

SpecAuth == InitAuth /\ [][NextAuth]_vars

InitCron == ChunkOff /\ CronInit

SpecCron == InitCron /\ [][CronNext]_vars

InitInput == ChunkOff /\ InputInit

SpecInput == InitInput /\ [][InputNext]_vars

InitMem == ChunkOff /\ CronOff /\ MemInit

InitStore == ChunkOff /\ CronOff /\ StoreInit

SpecStore == InitStore /\ [][NextStore]_vars

SpecMem == InitMem /\ [][MemNext]_vars

\* merge_memory_facts alone, applied once to each input.
MergeNext == \E h \in Handlers : MergeFacts(h) \/ SaveMemory(h)

InitMerge == ChunkOff /\ CronOff /\ MergeInit

SpecMerge == InitMerge /\ [][MergeNext]_vars

\* The start of the process: main() loads the two snapshots.
LoadNext ==
    \E h \in Handlers :
        \/ LoadHistoryRecord(h)
        \/ LoadHistoryFails(h)
        \/ LoadHistoryEnd(h)
        \/ LoadMemoryRecord(h)
        \/ LoadMemoryFails(h)
        \/ LoadMemoryEnd(h)

InitLoad == ChunkOff /\ CronOff /\ LoadInit

SpecLoad == InitLoad /\ [][LoadNext]_vars

\* build_context alone, applied once to each stored conversation.
CtxNext ==
    \E h \in Handlers :
        BuildContextStart(h) \/ ContextLoop(h) \/ ContextJoin(h)

InitCtx == ChunkOff /\ CronOff /\ CtxInit

SpecCtx == InitCtx /\ [][CtxNext]_vars

ChunkInit == ChunkStart /\ CronOff /\ ConvInit

SpecChunk == ChunkInit /\ [][ChunkNext]_vars

-----------------------------------------------------------------------------
(* Properties of the compression pipeline, checked under SpecSeq.          *)

Messages(cs, u) == cs[u].messages
Summary(cs, u) == cs[u].summary

\* Handler h ends a cycle in which generate_summary returned no summary.
FailedCycleEnds(h) ==
    /\ pc[h] = "compress_merge"
    /\ loc[h].new_summary = <<>>
    /\ pc'[h] = "idle"

\* Handler h ends a cycle that stored a summary.
StoringCycleEnds(h) ==
    /\ \/ pc[h] = "compress_merge" /\ loc[h].new_summary # <<>>
       \/ pc[h] = "compress_store"
    /\ pc'[h] = "idle"

\* Handler h takes a step of maybe_compress_history before the result of
\* generate_summary is acted upon.
CycleAdvances(h) ==
    /\ pc[h] \in {"compress_wait", "compress_gen"}
    /\ pc'[h] # pc[h]

\* C5: a compression cycle in which the summarizer fails leaves the
\* conversation states as they were at each of its steps, and the block it
\* submitted is the block the cycle of the next turn submits.
C5_FailedCycleKeepsState ==
    [][\A h \in Handlers :
          /\ (CycleAdvances(h) \/ FailedCycleEnds(h)) =>
                conversation_states' = conversation_states
          /\ (pc[h] = "compress_wait" /\ pc'[h] # pc[h]
                /\ g_failed[loc[h].user] # <<>>) =>
                /\ pc'[h] = "compress_gen"
                /\ loc'[h].to_summarize = g_failed[loc[h].user]]_vars

\* C5 witness: after a failed cycle the next turn has submitted the same
\* block again.
C5_Witness ==
    \E h \in Handlers :
        /\ pc[h] = "compress_gen"
        /\ g_failed[loc[h].user] # <<>>
        /\ loc[h].to_summarize = g_failed[loc[h].user]
        /\ Len(Messages(conversation_states, loc[h].user))
              > MAX_MESSAGES_BEFORE_COMPRESS

\* C6, as claimed: build_context never reads a conversation whose messages
\* have reached the threshold (a handler at "claude" has just read it).
C6_ContextBelowThreshold ==
    \A h \in Handlers :
        pc[h] = "claude" =>
            Len(Messages(conversation_states, loc[h].user))
                < MAX_MESSAGES_BEFORE_COMPRESS

\* C6, amended: build_context reads a conversation whose messages have
\* reached the threshold only if a compression cycle of that user failed
\* since the conversation was last emptied.
C6_ContextBelowThresholdUnlessFailed ==
    \A h \in Handlers :
        (pc[h] = "claude" /\ ~g_backlog[loc[h].user]) =>
            Len(Messages(conversation_states, loc[h].user))
                < MAX_MESSAGES_BEFORE_COMPRESS

\* C6 witness: build_context has read a conversation from which a block
\* was folded into the summary.
C6_Witness ==
    \E h \in Handlers :
        /\ pc[h] = "claude"
        /\ ~g_backlog[loc[h].user]
        /\ Summary(conversation_states, loc[h].user) # <<>>
        /\ Len(Messages(conversation_states, loc[h].user))
              = MAX_MESSAGES_BEFORE_COMPRESS - MESSAGES_TO_SUMMARIZE

\* C7: a cycle whose summarizer returns a summary removes exactly the
\* oldest MESSAGES_TO_SUMMARIZE turns, keeps the others in order, leaves a
\* non-empty summary and is the only cycle of its turn; started at the
\* threshold it leaves threshold - MESSAGES_TO_SUMMARIZE turns.
C7_OneCycleRemovesOldestBlock ==
    [][\A h \in Handlers :
          StoringCycleEnds(h) =>
             LET u   == loc[h].user
                 old == Messages(conversation_states, u)
                 new == Messages(conversation_states', u)
             IN  /\ new = SubSeq(old, MESSAGES_TO_SUMMARIZE + 1, Len(old))
                 /\ Len(new) = Len(old) - MESSAGES_TO_SUMMARIZE
                 /\ Summary(conversation_states', u) # <<>>
                 /\ Len(old) = MAX_MESSAGES_BEFORE_COMPRESS =>
                       Len(new) = MAX_MESSAGES_BEFORE_COMPRESS
                                     - MESSAGES_TO_SUMMARIZE]_vars

\* C7 witness: the second turn reached the threshold and its cycle left
\* the second turn and a summary.
C7_Witness ==
    /\ Quiet
    /\ \E u \in DOMAIN conversation_states :
          /\ Summary(conversation_states, u) \in {<<"s">>, <<"s", "s">>}
          /\ Messages(conversation_states, u) =
                <<Message("user", 2), Message("assistant", 2)>>

\* C8, as claimed: after every cycle that stored a summary the messages
\* are fewer than the threshold.
C8_IdleAfterCycle ==
    [][\A h \in Handlers :
          StoringCycleEnds(h) =>
             Len(Messages(conversation_states', loc[h].user))
                < MAX_MESSAGES_BEFORE_COMPRESS]_vars

\* C8, amended: after a cycle that stored a summary the messages are
\* fewer by MESSAGES_TO_SUMMARIZE, and fewer than the threshold when no
\* cycle of the user failed since the conversation was last emptied.
C8_IdleAfterCycleUnlessFailed ==
    [][\A h \in Handlers :
          StoringCycleEnds(h) =>
             LET u == loc[h].user
             IN  /\ Len(Messages(conversation_states', u)) =
                       Len(Messages(conversation_states, u))
                          - MESSAGES_TO_SUMMARIZE
                 /\ ~g_backlog[u] =>
                       Len(Messages(conversation_states', u))
                          < MAX_MESSAGES_BEFORE_COMPRESS]_vars

\* C8 witness: a second cycle without failure has merged two summaries and
\* left the pipeline idle.
C8_Witness ==
    /\ Quiet
    /\ \E u \in DOMAIN conversation_states :
          /\ ~g_backlog[u]
          /\ Len(Summary(conversation_states, u)) > Len(DELIM)
          /\ Len(Messages(conversation_states, u))
                = MAX_MESSAGES_BEFORE_COMPRESS - MESSAGES_TO_SUMMARIZE

\* C9, as claimed: on every path a summary longer than MAX_SUMMARY_CHARS
\* goes through the recompression pass: no step stores a longer summary
\* except the pass itself (whose fallback is the subject of C10).
C9_EveryPathRecompresses ==
    [][\A u \in DOMAIN conversation_states :
          (/\ Summary(conversation_states', u) # Summary(conversation_states, u)
           /\ Len(Summary(conversation_states', u)) > MAX_SUMMARY_CHARS) =>
              \E h \in Handlers :
                  pc[h] = "compress_store" /\ loc[h].user = u]_vars

\* C10: when the merged summary exceeds MAX_SUMMARY_CHARS the cycle stores
\* the compacted text if the compaction printed one, and otherwise the
\* old summary, the delimiter and the new summary; either way it removes
\* the summarized turns.  The pass runs only for such a merged summary.
C10_RecompressOrFallback ==
    [][\A h \in Handlers :
          (pc[h] = "compress_store" /\ pc'[h] # pc[h]) =>
             LET u      == loc[h].user
                 merged == Summary(conversation_states, u) \o DELIM
                              \o loc[h].new_summary
             IN  /\ Len(merged) > MAX_SUMMARY_CHARS
                 /\ Summary(conversation_states, u) # <<>>
                 /\ Summary(conversation_states', u) =
                       IF loc[h].compact_out # <<>> THEN loc[h].compact_out
                       ELSE merged
                 /\ Messages(conversation_states', u) =
                       SubSeq(Messages(conversation_states, u),
                              MESSAGES_TO_SUMMARIZE + 1,
                              Len(Messages(conversation_states, u)))]_vars

\* C10 witness: a compacted text was stored and the block removed.
C10_Witness ==
    \E u \in DOMAIN conversation_states :
        /\ Summary(conversation_states, u) = <<"c">>
        /\ Len(Messages(conversation_states, u)) >= MESSAGES_TO_SUMMARIZE

-----------------------------------------------------------------------------
(* Properties of ask_claude's retry loop, checked under SpecSeq.           *)

\* The messages and the summary of a user, empty for a user without state.
MessagesOf(cs, u) == IF u \in DOMAIN cs THEN cs[u].messages ELSE <<>>
SummaryOf(cs, u) == IF u \in DOMAIN cs THEN cs[u].summary ELSE <<>>

\* Every user turn of q is directly followed by the reply to it, and every
\* reply directly preceded by its user turn.
Paired(q) ==
    \A i \in 1..Len(q) :
        /\ q[i].role = "user" =>
              i < Len(q) /\ q[i + 1] = Message("assistant", q[i].content)
        /\ q[i].role = "assistant" =>
              i > 1 /\ q[i - 1] = Message("user", q[i].content)

\* Handler h takes a step of a turn that ends without a reply to record:
\* the call of ask_claude, an attempt that fails, the failure message sent.
FailingTurnStep(h) ==
    \/ pc[h] = "idle" /\ pc'[h] = "claude"
    \/ pc[h] = "claude" /\ pc'[h] \in {"claude", "reply_error"}
    \/ pc[h] = "reply_error"

\* C11: ask_claude makes at most max_retries attempts of the completion
\* call; no step of a turn that ends in failure (retries exhausted, non-zero
\* exit status, executable missing, other exception, empty output) changes
\* the user's messages or summary or the history snapshot; and a user turn
\* is recorded only together with its reply.
C11_FailedTurnRecordsNothing ==
    /\ [](\A h \in Handlers : loc[h].attempt + 1 <= max_retries)
    /\ [](\A u \in DOMAIN conversation_states :
             Paired(conversation_states[u].messages))
    /\ [][\A h \in Handlers :
             FailingTurnStep(h) =>
                LET u == IF pc[h] = "idle" THEN loc'[h].user ELSE loc[h].user
                IN  /\ MessagesOf(conversation_states', u)
                          = MessagesOf(conversation_states, u)
                    /\ SummaryOf(conversation_states', u)
                          = SummaryOf(conversation_states, u)
                    /\ history_file' = history_file]_vars

\* C11 witness: the last attempt of a turn has timed out while the user
\* has a recorded turn, and the failure is about to be reported.
C11_Witness ==
    \E h \in Handlers :
        /\ pc[h] = "reply_error"
        /\ loc[h].last_error = "timeout"
        /\ loc[h].attempt + 1 = max_retries
        /\ Len(MessagesOf(conversation_states, loc[h].user)) = 2

\* The failures the design calls transient.
Transient == {"timeout", "nonzero", "notfound"}

\* C12, as claimed: a timeout, a non-zero exit status or a missing
\* executable is reported to the caller only when the attempts are
\* exhausted.
C12_TransientFailuresRetried ==
    [][\A h \in Handlers :
          (/\ pc[h] = "claude"
           /\ pc'[h] = "reply_error"
           /\ loc'[h].last_error \in Transient) =>
              loc[h].attempt + 1 = max_retries]_vars

\* C12, amended: only a timeout is tried again: it is reported when the
\* attempts are exhausted and not before, and an attempt is started again
\* only after a timeout and only while attempts are left.
C12_OnlyTimeoutsRetried ==
    [][\A h \in Handlers :
          /\ (/\ pc[h] = "claude"
               /\ pc'[h] = "reply_error"
               /\ loc'[h].last_error = "timeout") =>
                  loc[h].attempt + 1 = max_retries
          /\ (pc[h] = "claude" /\ pc'[h] = "claude" /\ loc'[h] # loc[h]) =>
                  /\ loc'[h].last_error = "timeout"
                  /\ loc'[h].attempt = loc[h].attempt + 1
                  /\ loc'[h].attempt + 1 <= max_retries]_vars

\* C12 witness: a completion that timed out twice is being tried a third
\* time.
C12_Witness ==
    \E h \in Handlers :
        /\ pc[h] = "claude"
        /\ loc[h].last_error = "timeout"
        /\ loc[h].attempt + 1 = max_retries

-----------------------------------------------------------------------------
(* Properties of one user's overlapping handlers, checked under SpecRace.  *)

\* Handler h has a compression of user u's conversation in flight: a block
\* was submitted to the summarizer and its result is not yet stored.
InFlight(h, u) ==
    /\ loc[h].user = u
    /\ pc[h] \in {"compress_gen", "compress_merge", "compress_sum",
                  "compress_store", "summarize_gen", "summarize_merge"}

\* C13: at most one compression of a user's conversation is in flight at
\* any time, be it automatic (maybe_compress_history) or manual
\* (/summarize).
C13_OneCompressionInFlight ==
    \A u \in Users : Cardinality({h \in Handlers : InFlight(h, u)}) <= 1

\* The turns of a list of messages.
TurnsIn(q) == {q[i] : i \in 1..Len(q)}

\* Handler h stores the result of its compression in the step: a summary
\* came back and the state object it holds is still the user's.
StoresCompression(h) ==
    /\ \/ pc[h] \in {"compress_merge", "summarize_merge"}
             /\ loc[h].new_summary # <<>>
       \/ pc[h] = "compress_store"
    /\ pc'[h] = "idle"
    /\ loc[h].state = "live"

\* C14: whenever a compression is stored, every turn that leaves messages
\* belongs to the block that was summarized (no turn is lost), and every
\* turn of that block was still in messages (none is folded twice).
C14_NoTurnLostOrFoldedTwice ==
    [][\A h \in Handlers :
          StoresCompression(h) =>
             LET u     == loc[h].user
                 old   == TurnsIn(MessagesOf(conversation_states, u))
                 new   == TurnsIn(MessagesOf(conversation_states', u))
                 block == TurnsIn(loc[h].to_summarize)
             IN  /\ (old \ new) \subseteq block
                 /\ block \subseteq old]_vars

\* C15: with several completions of one user in flight, a completion that
\* returns appends its user turn and then its reply at the end of
\* messages, so that turns stand in the order of return, and every user
\* turn in messages is directly followed by its own reply.
C15_ReturnOrderAndPaired ==
    /\ [](LoopFree =>
             \A u \in DOMAIN conversation_states :
                 Paired(conversation_states[u].messages))
    /\ [][\A h \in Handlers :
             LET u == loc[h].user
             IN  /\ (pc[h] = "claude" /\ pc'[h] = "claude_append") =>
                        MessagesOf(conversation_states', u) =
                           Append(MessagesOf(conversation_states, u),
                                  Message("user", loc[h].turn))
                 /\ (pc[h] = "claude_append" /\ pc'[h] # pc[h]) =>
                        MessagesOf(conversation_states', u) =
                           Append(MessagesOf(conversation_states, u),
                                  Message("assistant", loc[h].turn))]_vars

-----------------------------------------------------------------------------
(* Properties of the fact store: merge_memory_facts under SpecMerge, the   *)
(* commands under SpecMem, build_context under SpecSeq.                    *)

\* Handler h executes merge_memory_facts in the step.
Merges(h) == pc[h] = "merge_facts" /\ pc'[h] = "save_memory"

\* The facts of a list.
FactsIn(q) == {q[i] : i \in 1..Len(q)}

\* Candidate k of new_facts is one the claim has appended: not empty once
\* trimmed, not in the user's list, not an earlier candidate of the call.
Fresh(before, new_facts, k) ==
    /\ Strip(new_facts[k]) # <<>>
    /\ Strip(new_facts[k]) \notin FactsIn(before)
    /\ \A j \in 1..(k - 1) : Strip(new_facts[j]) # Strip(new_facts[k])

\* The trimmed fresh candidates among the first k, in the order given.
RECURSIVE FreshUpTo(_, _, _)
FreshUpTo(before, new_facts, k) ==
    IF k = 0 THEN <<>>
    ELSE IF Fresh(before, new_facts, k)
         THEN Append(FreshUpTo(before, new_facts, k - 1), Strip(new_facts[k]))
         ELSE FreshUpTo(before, new_facts, k - 1)

\* The user's list followed by the fresh candidates.
Grown(before, new_facts) ==
    before \o FreshUpTo(before, new_facts, Len(new_facts))

\* C16, as claimed: merge_memory_facts leaves a list without duplicates
\* and without empty facts, made of the user's facts and the trimmed
\* candidates, and merging the same candidates again changes nothing.
C16_MergeDeduplicatesIdempotent ==
    [][\A h \in Handlers :
          Merges(h) =>
             LET u      == loc[h].user
                 before == get_user_memory(user_memories, u)
                 after  == user_memories'[u]
             IN  /\ NoDuplicate(after)
                 /\ <<>> \notin FactsIn(after)
                 /\ FactsIn(after) \subseteq
                       FactsIn(Grown(before, loc[h].new_facts))
                 /\ merge_memory_facts(user_memories', u, loc[h].new_facts)
                       = user_memories']_vars

\* C16, amended: as above, but merging the same candidates again changes
\* nothing only when the first merge evicted no fact; otherwise it still
\* leaves a list without duplicates.
C16_MergeDeduplicatesIdempotentUnlessEvicted ==
    [][\A h \in Handlers :
          Merges(h) =>
             LET u      == loc[h].user
                 before == get_user_memory(user_memories, u)
                 after  == user_memories'[u]
                 again  == merge_memory_facts(user_memories', u,
                                              loc[h].new_facts)
             IN  /\ NoDuplicate(after)
                 /\ <<>> \notin FactsIn(after)
                 /\ FactsIn(after) \subseteq
                       FactsIn(Grown(before, loc[h].new_facts))
                 /\ NoDuplicate(again[u])
                 /\ Len(Grown(before, loc[h].new_facts)) <= MAX_MEMORY_FACTS
                       => /\ again = user_memories'
                          /\ after = Grown(before, loc[h].new_facts)]_vars

\* C16 witness: a candidate that equals a stored fact once trimmed was
\* skipped and a new one appended.
C16_Witness ==
    \E h \in Handlers :
        /\ pc[h] = "save_memory"
        /\ loc[h].new_facts = << <<SP, "A", SP>>, FactB >>
        /\ memory_file = MemoryData(Put(EmptyDict, loc[h].user, <<FactA>>))
        /\ user_memories[loc[h].user] = <<FactA, FactB>>

\* C17: when the user's list with the fresh candidates is longer than
\* MAX_MEMORY_FACTS, the list after the merge is its last
\* MAX_MEMORY_FACTS facts in order.
C17_CapKeepsNewest ==
    [][\A h \in Handlers :
          Merges(h) =>
             LET u    == loc[h].user
                 full == Grown(get_user_memory(user_memories, u),
                               loc[h].new_facts)
             IN  Len(full) > MAX_MEMORY_FACTS =>
                    user_memories'[u] =
                       SubSeq(full, Len(full) - MAX_MEMORY_FACTS + 1,
                              Len(full))]_vars

\* C17 witness: with the cap at 2, the list [A, B] merged with [C] is
\* [B, C].
C17_Witness ==
    \E h \in Handlers :
        /\ pc[h] = "save_memory"
        /\ MAX_MEMORY_FACTS = 2
        /\ loc[h].new_facts = <<FactC>>
        /\ memory_file =
              MemoryData(Put(EmptyDict, loc[h].user, <<FactA, FactB>>))
        /\ user_memories[loc[h].user] = <<FactB, FactC>>

C19_ResetAndForgetFrames ==
    [][/\ conversation_states' # conversation_states =>
             /\ \E u \in DOMAIN conversation_states' :
                   /\ conversation_states'[u].summary = <<>>
                   /\ conversation_states'[u].messages = <<>>
                   /\ \A x \in DOMAIN conversation_states \ {u} :
                         /\ x \in DOMAIN conversation_states'
                         /\ conversation_states'[x] = conversation_states[x]
             /\ user_memories' = user_memories
             /\ memory_file' = memory_file
       /\ \A u \in DOMAIN user_memories :
             Len(get_user_memory(user_memories', u)) < Len(user_memories[u]) =>
                /\ conversation_states' = conversation_states
                /\ history_file' = history_file
                /\ \/ get_user_memory(user_memories', u) = <<>>
                   \/ \E n \in 1..Len(user_memories[u]) :
                         user_memories'[u] = Pop(user_memories[u], n - 1)]_vars

\* C19 witness: the conversation loaded at startup was reset (the write
\* of the snapshot failed, so the file still shows it) and the facts
\* loaded with it are still there.
C19_Witness ==
    /\ Quiet
    /\ 101 \in DOMAIN conversation_states
    /\ conversation_states[101] = ConversationState
    /\ Str(101) \in DOMAIN history_file
    /\ history_file[Str(101)].summary = <<"s">>
    /\ get_user_memory(user_memories, 101) = <<FactA, FactB>>

\* Handler h calls build_context in the step (ask_claude, line 521).
BuildsContext(h) == pc[h] = "idle" /\ pc'[h] = "claude"

\* C20, as claimed: build_context leaves the stored conversation states
\* and the fact lists exactly as they were.
C20_BuildContextReadOnly ==
    [][\A h \in Handlers :
          BuildsContext(h) =>
             /\ conversation_states' = conversation_states
             /\ user_memories' = user_memories]_vars

\* C20, amended: build_context changes no stored summary, messages or
\* fact list; for a user without a conversation state it stores an empty
\* one.
C20_BuildContextCreatesOnly ==
    [][\A h \in Handlers :
          BuildsContext(h) =>
             /\ DOMAIN conversation_states' =
                   DOMAIN conversation_states \cup {loc'[h].user}
             /\ \A u \in DOMAIN conversation_states :
                   conversation_states'[u] = conversation_states[u]
             /\ loc'[h].user \notin DOMAIN conversation_states =>
                   conversation_states'[loc'[h].user] = ConversationState
             /\ user_memories' = user_memories
             /\ history_file' = history_file
             /\ memory_file' = memory_file]_vars

\* C20 witness: build_context has run for a user with recorded turns
\* and a summary, and for a user never seen before.
C20_Witness ==
    \E h \in Handlers :
        /\ pc[h] = "claude"
        /\ \E u \in DOMAIN conversation_states :
              /\ conversation_states[u].messages # <<>>
              /\ conversation_states[u].summary # <<>>
        /\ conversation_states[loc[h].user] = ConversationState
        /\ Str(loc[h].user) \notin DOMAIN history_file

-----------------------------------------------------------------------------
(* Properties of build_context, checked under SpecCtx.                     *)

\* The entries of the last k turns of q, oldest first.
LastEntries(q, k) == [i \in 1..k |-> Entry(q[Len(q) - k + i])]

\* The total length of the entries of the last k turns of q.
RECURSIVE SuffixChars(_, _)
SuffixChars(q, k) ==
    IF k = 0 THEN 0 ELSE Len(Entry(q[Len(q) - k + 1])) + SuffixChars(q, k - 1)

\* The recent-conversation parts of a list of parts.
RecentParts(parts) ==
    {i \in 1..Len(parts) : StartsWith(parts[i], RecentHeader)}

\* C21: the turns build_context has taken are the last n turns of
\* messages in chronological order, their entries are together at most
\* MAX_CONTEXT_CHARS long, the turn before them (if any) would have
\* exceeded the budget, and the recent-conversation section is the last
\* part when n > 0 and is left out when n = 0.
C21_RecentTurnsSuffix ==
    \A h \in Handlers :
        (pc[h] = "claude" /\ loc[h].parts # <<>>) =>
            LET q == conversation_states[loc[h].user].messages
                n == Len(loc[h].context_parts)
                P == loc[h].parts
            IN  /\ n <= Len(q)
                /\ loc[h].context_parts = LastEntries(q, n)
                /\ SuffixChars(q, n) <= MAX_CONTEXT_CHARS
                /\ n < Len(q) => SuffixChars(q, n + 1) > MAX_CONTEXT_CHARS
                /\ n > 0 =>
                      /\ RecentParts(P) = {Len(P)}
                      /\ P[Len(P)] = RecentHeader \o <<NL>>
                                        \o JoinWith(<<NL, NL>>, LastEntries(q, n))
                /\ n = 0 => RecentParts(P) = {}

\* C21 witness: the newest turn was taken, the one before it did not fit,
\* and the oldest, which would have fitted, was not looked at.
C21_Witness ==
    \E h \in Handlers :
        /\ pc[h] = "claude"
        /\ Len(loc[h].context_parts) = 1
        /\ LET q == conversation_states[loc[h].user].messages
           IN  /\ Len(q) = 3
               /\ Len(Entry(q[3])) + Len(Entry(q[1])) <= MAX_CONTEXT_CHARS

-----------------------------------------------------------------------------
(* Properties of the snapshot loaders, checked under SpecLoad.             *)

\* load_history has returned.
HistoryLoaded == \A h \in Handlers : pc[h] # "load_history"

\* C24: once load_history has returned, every user whose record can be
\* parsed holds the state of that record, wherever in the file a record
\* that cannot be parsed stands, and only the user of such a record is
\* left with an empty state.
C24_OnlyMalformedUserDegrades ==
    HistoryLoaded =>
        \A i \in 1..Len(history_file) :
            LET rec == history_file[i]
                u   == IntOf(rec.key)
            IN  IF HistoryRecordRaises(rec)
                THEN /\ MessagesOf(conversation_states, u) = <<>>
                     /\ SummaryOf(conversation_states, u) = <<>>
                ELSE /\ u \in DOMAIN conversation_states
                     /\ conversation_states[u] = LoadedState(rec.value)

\* The turns a list of stored messages stands for.
TurnsOf(entries) ==
    [i \in 1..Len(entries) |-> Message(entries[i].role, entries[i].content)]

\* Record i of the file is one the loader reads: neither it nor a record
\* before it raises.
Reached(file, i, Raises(_)) == \A j \in 1..i : ~Raises(file[j])

-----------------------------------------------------------------------------
(* Properties of the snapshots, checked under SpecStore.                   *)

\* Loading the history snapshot gives every user the summary and the
\* turns the conversation states hold.
HistoryPersisted(file, cs) ==
    \A u \in Users :
        /\ MessagesOf(load_history(file), u) = MessagesOf(cs, u)
        /\ SummaryOf(load_history(file), u) = SummaryOf(cs, u)

\* Loading the memory snapshot gives every user the facts the fact store
\* holds.
MemoryPersisted(file, um) ==
    \A u \in Users :
        get_user_memory(load_memory(file), u) = get_user_memory(um, u)

\* The step changes the summary or the turns of some user.
ConversationChanges ==
    \E u \in Users :
        \/ MessagesOf(conversation_states', u) # MessagesOf(conversation_states, u)
        \/ SummaryOf(conversation_states', u) # SummaryOf(conversation_states, u)

\* The step changes the facts of some user.
FactsChange ==
    \E u \in Users :
        get_user_memory(user_memories', u) # get_user_memory(user_memories, u)

\* C22: a step that changes a summary or turns and whose writes succeed
\* leaves a history snapshot that holds the conversation of every user; a
\* step that changes facts and whose writes succeed leaves a memory
\* snapshot that holds the facts of every user; and as long as no write
\* has failed both snapshots hold what the stores hold.
C22_SnapshotFollowsState ==
    /\ [](write_failures = 0 =>
             /\ HistoryPersisted(history_file, conversation_states)
             /\ MemoryPersisted(memory_file, user_memories))
    /\ [][write_failures' = write_failures =>
             /\ ConversationChanges =>
                   HistoryPersisted(history_file', conversation_states')
             /\ FactsChange =>
                   MemoryPersisted(memory_file', user_memories')]_vars

\* C22 witness: a write failed earlier, and later writes have brought both
\* snapshots up to the stores again, which hold a summary, turns and
\* facts of user 101 beside the data of user 102.
C22_Witness ==
    /\ Quiet
    /\ write_failures > 0
    /\ 101 \in DOMAIN conversation_states
    /\ conversation_states[101].summary # <<>>
    /\ conversation_states[101].messages # <<>>
    /\ get_user_memory(user_memories, 101) # <<>>
    /\ HistoryPersisted(history_file, conversation_states)
    /\ MemoryPersisted(memory_file, user_memories)

\* A snapshot write fails in the step.
WriteFails == write_failures' > write_failures

\* C23: a step in which a snapshot write fails ends as it does when the
\* write succeeds: the turn pair is appended and the handler goes on to
\* the compression (the reply is returned); a cycle or /summarize stores
\* its summary, drops its turns and merges its facts; /clear and /new
\* leave an empty conversation; /forget removes the facts; /new after its
\* extraction goes on to the reset.  No handler turns to its failure path.
C23_WriteFailureSwallowed ==
    [][WriteFails =>
          /\ \A h \in Handlers : pc'[h] # "reply_error"
          /\ \A h \in Handlers :
                LET l == loc[h]
                    u == l.user
                IN  /\ pc[h] = "claude" =>
                          /\ pc'[h] = "compress_wait"
                          /\ MessagesOf(conversation_states', u) =
                                MessagesOf(conversation_states, u)
                                   \o <<Message("user", l.turn),
                                        Message("assistant", l.turn)>>
                    /\ pc[h] \in {"compress_merge", "compress_store"} =>
                          /\ pc'[h] = "idle"
                          /\ (pc[h] = "compress_store" \/ l.new_summary # <<>>) =>
                                /\ MessagesOf(conversation_states', u) = l.to_keep
                                /\ SummaryOf(conversation_states', u) # <<>>
                          /\ l.new_facts # <<>> =>
                                user_memories' =
                                   merge_memory_facts(user_memories, u, l.new_facts)
                    /\ pc[h] = "summarize_merge" =>
                          /\ pc'[h] = "idle"
                          /\ l.new_summary # <<>>
                          /\ MessagesOf(conversation_states', u) = <<>>
                          /\ SummaryOf(conversation_states', u) # <<>>
                          /\ l.new_facts # <<>> =>
                                user_memories' =
                                   merge_memory_facts(user_memories, u, l.new_facts)
                    /\ pc[h] = "new_gen" =>
                          /\ pc'[h] = "new_reset"
                          /\ \E r \in GenResults :
                                /\ r.facts # <<>>
                                /\ user_memories' =
                                      merge_memory_facts(user_memories, u, r.facts)
                    /\ pc[h] = "new_reset" =>
                          /\ pc'[h] = "idle"
                          /\ conversation_states'[u] = ConversationState
          /\ Quiet =>
                /\ Quiet'
                /\ \E u \in Users :
                      \/ /\ conversation_states' =
                               Put(conversation_states, u, ConversationState)
                         /\ user_memories' = user_memories
                      \/ /\ conversation_states' = conversation_states
                         /\ u \in DOMAIN user_memories
                         /\ \/ user_memories' = DeleteMemory(user_memories, u)
                            \/ \E n \in 1..Len(user_memories[u]) :
                                  user_memories' =
                                     Put(user_memories, u,
                                         Pop(user_memories[u], n - 1))]_vars

\* C23 witness: the write of the snapshot failed when a turn was recorded:
\* the stores hold the turn pair, the file does not, and the handler has
\* gone on to the compression.
C23_Witness ==
    \E h \in Handlers :
        /\ pc[h] = "compress_wait"
        /\ write_failures > 0
        /\ Len(MessagesOf(conversation_states, loc[h].user)) = 2
        /\ MessagesOf(load_history(history_file), loc[h].user) = <<>>

\* C29: /new submits the conversation to the summarizer only when it
\* holds at least NEW_MIN_MESSAGES turns; what the summarizer returns
\* changes no conversation, and the user's facts after it are the facts
\* before followed by the new ones that are fresh, cut to the cap, so
\* that no fact goes unless the cap evicts it; the reset that ends /new
\* leaves the user's summary and messages empty and the facts as they are;
\* and a conversation that is emptied without the summarizer (/new on a
\* short conversation, /clear) keeps the facts too.
C29_NewKeepsFactsAndResets ==
    [][/\ \A h \in Handlers :
             LET u      == loc[h].user
                 before == get_user_memory(user_memories, u)
                 after  == get_user_memory(user_memories', u)
             IN  /\ (pc[h] = "idle" /\ pc'[h] = "new_gen") =>
                       /\ Len(MessagesOf(conversation_states, loc'[h].user))
                             >= NEW_MIN_MESSAGES
                       /\ conversation_states' = conversation_states
                       /\ user_memories' = user_memories
                 /\ (pc[h] = "new_gen" /\ pc'[h] # pc[h]) =>
                       /\ pc'[h] = "new_reset"
                       /\ conversation_states' = conversation_states
                       /\ \E r \in GenResults :
                             /\ after = CapFacts(Grown(before, r.facts))
                             /\ Len(Grown(before, r.facts)) <= MAX_MEMORY_FACTS
                                   => IsPrefix(before, after)
                       /\ \A x \in Users \ {u} :
                             get_user_memory(user_memories', x)
                                = get_user_memory(user_memories, x)
                 /\ (pc[h] = "new_reset" /\ pc'[h] # pc[h]) =>
                       /\ pc'[h] = "idle"
                       /\ conversation_states'[u] = ConversationState
                       /\ user_memories' = user_memories
       /\ (Quiet /\ Quiet' /\ ConversationChanges) =>
             /\ \E u \in Users :
                   conversation_states' =
                      Put(conversation_states, u, ConversationState)
             /\ user_memories' = user_memories]_vars

\* C29 witness: /new has merged an extracted fact behind the fact the user
\* had and is about to reset a conversation of at least NEW_MIN_MESSAGES
\* turns.
C29_Witness ==
    \E h \in Handlers :
        /\ pc[h] = "new_reset"
        /\ Len(MessagesOf(conversation_states, loc[h].user)) >= NEW_MIN_MESSAGES
        /\ get_user_memory(user_memories, loc[h].user) = <<FactB, FactA>>

-----------------------------------------------------------------------------
(* Properties of two users' concurrent handlers, checked under SpecPair.   *)

\* The step leaves the summary, the turns and the facts of every user but
\* u as they are.
OthersUnchanged(u) ==
    \A x \in Users \ {u} :
        /\ MessagesOf(conversation_states', x) = MessagesOf(conversation_states, x)
        /\ SummaryOf(conversation_states', x) = SummaryOf(conversation_states, x)
        /\ get_user_memory(user_memories', x) = get_user_memory(user_memories, x)
        /\ x \in DOMAIN conversation_states => x \in DOMAIN conversation_states'

\* C26: every step a handler takes for its user (a message, the
\* compression cycle, /summarize, /clear, /new, /forget, a fact merge)
\* leaves the summary, the turns and the facts of the other user
\* unchanged, also while a call of the other user is in flight.
C26_OtherUsersUntouched ==
    [][\A h \in Handlers : PairStep(h) => OthersUnchanged(UserOf(h))]_vars

\* C26 witness: both users hold a summary, turns and facts, and a
\* long-running call of each is in flight.
C26_Witness ==
    /\ pc[1] \in {"compress_gen", "compress_sum", "summarize_gen", "new_gen"}
    /\ pc[2] \in {"compress_gen", "compress_sum", "summarize_gen", "new_gen"}
    /\ \A u \in Users :
          /\ u \in DOMAIN conversation_states
          /\ conversation_states[u].messages # <<>>
    /\ \E u \in Users : conversation_states[u].summary # <<>>
    /\ \E u \in Users : get_user_memory(user_memories, u) # <<>>

-----------------------------------------------------------------------------
(* Properties of the commands' arguments, checked under SpecInput.         *)

\* The arguments of /forget that name a number, with the number; the
\* others name none.
ForgetNumbers ==
    {<<(<<"1">>), 1>>, <<(<<"2">>), 2>>, <<(<<"3">>), 3>>, <<(<<"0">>), 0>>,
     <<(<<"-", "1">>), 0 - 1>>, <<(<<"+", "2">>), 2>>, <<(<<"0", "1">>), 1>>,
     <<(<<"1", "_", "0">>), 10>>, <<(<<"9", "9">>), 99>>}

\* The word all, and the words the command takes for all.
WordAll == {<<"a", "l", "l">>, <<"A", "L", "L">>}
WordsForAll == WordAll \cup {<<"U+5168", "U+90E8">>}

\* /forget <arg> is to be refused: a number outside 1..len(facts), or a
\* text that is neither a number nor one of the words for all.
ForgetRefused(u, arg, all) ==
    IF \E p \in ForgetNumbers : p[1] = arg
    THEN \E p \in ForgetNumbers :
            /\ p[1] = arg
            /\ p[2] \notin 1..Len(get_user_memory(user_memories, u))
    ELSE arg \notin all

\* The durations that cannot be read or are zero, the intervals below
\* MIN_INTERVAL_SECONDS, and the times of day that are no HH:MM.
BadDurations ==
    {<<"0", "s">>, <<"0", "0", "m">>, <<"m">>, <<"5">>, <<"5", "x">>,
     <<"s", "5">>, <<"-", "5", "m">>, <<"1", ".", "5", "h">>}
ShortIntervals == {<<"3", "0", "s">>, <<"5", "9", "s">>}
BadTimes ==
    {<<"2", "4", ":", "0", "0">>, <<"1", "2", ":", "6", "0">>,
     <<"9", ":", "5">>, <<"9", "0", "0">>, <<"a", "b", ":", "c", "d">>,
     <<"1", "2", "3", ":", "0", "0">>, <<"9", ":", "0", "0", "0">>}

\* The step sends one of the responses and changes nothing else: no job,
\* no schedule, no fact, no file, and no handler is left at work.
OnlyResponds(responses) ==
    /\ sent'.text \in responses
    /\ UNCHANGED <<jobs, jobs_file, schedules, runs, next_job>>
    /\ UNCHANGED <<pc, write_failures, stores>>

\* Every command with an argument that is to be refused answers the user
\* and changes nothing.
RefusalsChangeNothing(all) ==
    \A h \in Handlers, u \in ActiveUsers :
        FreeHandler(h) =>
            /\ \A arg \in ForgetArgs :
                  ForgetRefused(u, arg, all) /\ ForgetCommand(h, u, arg)
                      => OnlyResponds({"no_memory", "invalid_index",
                                       "forget_usage"})
            /\ \A a \in BadDurations :
                  /\ Remind(h, u, WithMessage(a)) => OnlyResponds({"unparsable"})
                  /\ Every(h, u, WithMessage(a)) => OnlyResponds({"unparsable"})
            /\ \A a \in ShortIntervals :
                  Every(h, u, WithMessage(a)) => OnlyResponds({"below_minimum"})
            /\ \A a \in BadTimes :
                  Daily(h, u, WithMessage(a)) => OnlyResponds({"unparsable"})

\* C27 as stated: a command whose argument fails validation answers the
\* user and changes no state; /forget with a number outside 1..len(facts)
\* or with a text that is no number and not the word all leaves the facts
\* as they are; /remind and /every with a duration that cannot be read or
\* is zero, /every with an interval below MIN_INTERVAL_SECONDS and /daily
\* with a time that is no HH:MM add no job.
C27_OnlyAllClearsFacts == [][RefusalsChangeNothing(WordAll)]_vars

\* C27, amended: the same, where the texts /forget does not refuse are
\* all and its synonym of line 782, in any letter case.
C27_InvalidInputChangesNothing == [][RefusalsChangeNothing(WordsForAll)]_vars

\* C27 witness: an interval below the minimum was refused while a job is
\* in the table and one of the two facts has been removed.
C27_Witness ==
    /\ sent.text = "below_minimum"
    /\ next_job = 1
    /\ StoredId \in DOMAIN jobs
    /\ Len(get_user_memory(user_memories, 101)) = 1

-----------------------------------------------------------------------------
(* Properties of the execution of jobs, checked under SpecCron.            *)

\* What the step does to a job whose callback has returned in it: a
\* one-time job is in the table no more, and the file written in the step
\* is the table's unless the write failed; a job of another kind is left
\* in the table, and the table as it was.
AfterExecution(job) ==
    IF job.schedule.kind = AT
    THEN /\ job.id \notin DOMAIN jobs'
         /\ job.id \in DOMAIN jobs /\ write_failures' = write_failures
                => jobs_file' = JobsData(jobs')
    ELSE jobs' = jobs

\* C30: when the callback of a one-time (kind at) job has returned, in a
\* task of the scheduler or in /cron test, the job is in the job table no
\* more and the table without it has been written to the jobs file (a
\* failed write is logged and leaves the file as it was); a job of kind
\* every or cron stays in the table after each execution.
C30_OneTimeJobRemoved ==
    [][/\ \A t \in Tasks :
             ExecReturn(t, FALSE) => AfterExecution(runs[t].job)
       /\ \A t \in Tasks, job_id \in AskedIds :
             /\ runs[t].pc = "idle" /\ runs'[t].pc = "idle"
             /\ job_id \in DOMAIN jobs
             /\ IF job_id \in DOMAIN jobs THEN jobs[job_id].enabled ELSE FALSE
             /\ \/ t \in SchedulerTasks /\ Fire(t, job_id)
                \/ t \in Handlers /\ \E u \in ActiveUsers : CronTest(t, u, job_id)
             => AfterExecution(jobs[job_id])]_vars

\* C30 witness: a one-time job has been executed by /cron test and is
\* gone from the table and from the file, its schedule still held by the
\* scheduler, and the periodic job of the jobs file is in the table.
C30_Witness ==
    /\ \E id \in DOMAIN schedules :
          /\ schedules[id] = AT
          /\ id \notin DOMAIN jobs
          /\ id \notin DOMAIN jobs_file
    /\ StoredId \in DOMAIN jobs
    /\ jobs[StoredId].schedule.kind = EVERY
    /\ sent.text = "executed"

\* The job is not in the table, or its flag is off.
Skipped(job_id) ==
    IF job_id \in DOMAIN jobs THEN ~jobs[job_id].enabled ELSE TRUE

\* Task t goes into the callback of a job in this step.
CallbackStarts(t) ==
    runs[t].pc = "idle" /\ runs'[t].pc \in {"claude", "send"}

\* C31: a callback (message sender or Claude invoker) is started only for
\* a job that is in the job table with its flag on; a schedule that comes
\* due for, or a /cron test of, a job that is disabled or no more in the
\* table starts no callback and leaves the table and the file as they
\* were.
C31_SkippedJobsInvokeNothing ==
    [][/\ \A t \in Tasks :
             CallbackStarts(t)
             => /\ ~Skipped(runs'[t].job.id)
                /\ runs'[t].job = jobs[runs'[t].job.id]
       /\ \A t \in Tasks, job_id \in AskedIds :
             /\ Skipped(job_id)
             /\ \/ t \in SchedulerTasks /\ Fire(t, job_id)
                \/ t \in Handlers /\ \E u \in ActiveUsers : CronTest(t, u, job_id)
             => UNCHANGED <<runs, jobs, jobs_file>>]_vars

\* C31 witness: the one-time job of the jobs file has been disabled by a
\* /cron toggle that has not yet taken its schedule away, the schedule has
\* come due and is used up, and nothing runs for the job, which is still
\* in the table and in the file.
C31_Witness ==
    /\ StoredId \in DOMAIN jobs
    /\ jobs[StoredId].schedule.kind = AT
    /\ ~jobs[StoredId].enabled
    /\ StoredId \in DOMAIN jobs_file
    /\ StoredId \notin DOMAIN schedules
    /\ \E h \in Handlers :
          /\ runs[h].pc = "toggle"
          /\ runs[h].job.id = StoredId
          /\ ~runs[h].job.enabled
    /\ \A t \in Tasks : runs[t].pc \notin {"claude", "send"}
    /\ sent = NoReply

\* /cron test answers that the job has been executed.
ReportsExecuted(u) == sent' = [user |-> u, text |-> "executed"]

\* C32: /cron test reports that the job has been executed (test_job
\* returned True) only when the callback of the job has been invoked and
\* has returned: not for a job that _execute_job skipped, and not for a
\* callback that raised; for a job that is not in the table it reports
\* that there is no such job (test_job returned False).
C32_TestReportsExecution ==
    [][\A h \in Handlers, u \in ActiveUsers :
          /\ \A job_id \in AskedIds :
                CronTest(h, u, job_id)
                => /\ job_id \notin DOMAIN jobs <=> sent'.text = "not_found"
                   /\ Skipped(job_id) => ~ReportsExecuted(u)
          /\ runs[h].user = u /\ ExecReturn(h, TRUE) /\ ~ExecReturn(h, FALSE)
                => ~ReportsExecuted(u)]_vars

-----------------------------------------------------------------------------
(* Properties of the jobs that invoke Claude, checked under SpecInvoke.    *)

\* Task t starts or ends the callback of a job that invokes Claude.
InvocationStep(t) ==
    /\ runs'[t] # runs[t]
    /\ runs[t].pc = "claude" \/ runs'[t].pc = "claude"

\* C33: a step in which the Claude invoker of a scheduled job is called,
\* returns or raises leaves the conversation states as they are (no state
\* is created for the job's user, as build_context would, and no summary
\* or turn changes), and with them the fact lists and the two snapshot
\* files.
C33_InvocationLeavesConversations ==
    [][\A t \in SchedulerTasks :
          InvocationStep(t)
          => UNCHANGED <<conversation_states, user_memories, history_file,
                         memory_file>>]_vars

\* C33 witness: the job of user 101 is waiting for Claude in a task of
\* the scheduler while a message of the same user, who has recorded turns
\* and facts, is waiting for its completion.
C33_Witness ==
    /\ \E t \in SchedulerTasks :
          /\ runs[t].pc = "claude"
          /\ runs[t].job.user_id = 101
    /\ 101 \in DOMAIN conversation_states
    /\ Len(MessagesOf(conversation_states, 101)) >= 2
    /\ 101 \in DOMAIN user_memories
    /\ \E h \in Handlers : pc[h] = "claude" /\ loc[h].user = 101

-----------------------------------------------------------------------------
(* Further properties of chunk_message, checked under SpecChunk.           *)

\* C34: the fragments chunk_message returns for a text that is not empty
\* are not empty, also when a line that alone exceeds max_chars comes
\* first in the text or first after a split.
C34_NoEmptyFragment ==
    ck_pc = "done" /\ text # <<>>
    => \A k \in 1..Len(chunks) : chunks[k] # <<>>

-----------------------------------------------------------------------------
(* The shape of messages, checked under SpecRace.                          *)

\* q has even length and its turns are user, assistant, user, assistant...
Alternates(q) ==
    /\ Len(q) % 2 = 0
    /\ \A i \in 1..Len(q) :
          q[i].role = IF i % 2 = 1 THEN "user" ELSE "assistant"

\* C35: from an empty store, whenever the event loop is not between the
\* two appends of a turn, the messages of every user have even length and
\* alternate user, assistant from a user turn on, whatever the
\* interleaving of messages, compressions, /summarize, /clear and /new.
C35_MessagesAlternate ==
    LoopFree =>
        \A u \in DOMAIN conversation_states :
            Alternates(conversation_states[u].messages)

-----------------------------------------------------------------------------
(* Properties of the authorization, checked under SpecAuth.                *)

\* The user ids ALLOWED_USER_IDS names (none when it cannot be read).
Listed ==
    IF AllowedRaises(ALLOWED_USER_IDS) THEN {}
    ELSE get_allowed_users(ALLOWED_USER_IDS)

\* The step leaves the conversations, the facts, the jobs and their files
\* as they are and starts no call: every handler stays where it stands.
NothingDone ==
    UNCHANGED <<conversation_states, user_memories, history_file, memory_file,
                jobs, jobs_file, schedules, pc, loc, runs, next_turn,
                next_job>>

\* A message of a user for whom `restricted` holds changes nothing.
RefusedChangeNothing(restricted(_)) ==
    \A h \in Handlers, u \in Users :
        restricted(u) /\ OnMessage(h, u) => NothingDone

\* A user is told that they are not authorized only when the list names
\* a user and not them.
RefusalsJustified ==
    sent' # sent /\ sent'.text = "not_authorized"
    => Listed # {} /\ sent'.user \notin Listed

\* The setting is not empty and the user is not among the ids it names.
NotOnList(u) == ALLOWED_USER_IDS # <<>> /\ u \notin Listed

\* The setting names a user id, and not the user's.
NotAmongListed(u) == Listed # {} /\ u \notin Listed

\* C36, as claimed: when ALLOWED_USER_IDS is not empty, a message of a
\* user who is not on the list changes no conversation state, fact list
\* or job and starts no completion or summarization call; with an empty
\* list nobody is refused.
C36_NonEmptySettingRestricts ==
    [][RefusedChangeNothing(NotOnList) /\ RefusalsJustified]_vars

\* C36, amended: when ALLOWED_USER_IDS names at least one user id, a
\* message of a user it does not name changes no conversation state, fact
\* list or job and starts no completion or summarization call; when it
\* names none (not set, or only commas and blanks) nobody is refused.
C36_UnlistedUserChangesNothing ==
    [][RefusedChangeNothing(NotAmongListed) /\ RefusalsJustified]_vars

\* C36 witness: the list names user 101 alone; user 102 has been told
\* that they are not authorized, the turns, facts and job of user 102 are
\* as they were loaded, and a message of user 101 has been recorded.
C36_Witness ==
    /\ Listed = {101}
    /\ sent = [user |-> 102, text |-> "not_authorized"]
    /\ conversation_states[102] = load_history(history_file)[102]
    /\ Len(conversation_states[102].messages) = 2
    /\ user_memories[102] = <<FactA>>
    /\ StoredId \in DOMAIN jobs
    /\ Len(conversation_states[101].messages) > 2

====
